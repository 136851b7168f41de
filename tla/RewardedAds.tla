----------------------------- MODULE RewardedAds -----------------------------
(* One reward a participant watches advertisements for: the app that asks   *)
(* for an intent, shows the ad and waits; AdMob, which reports a watched ad  *)
(* until it is answered with 2xx; reward-callback with its cache of          *)
(* Google's keys; and the database functions, one at a time under the       *)
(* promise's advisory lock.                                                *)
EXTENDS Integers

CONSTANTS MaxIntents,  \* intents made for the reward
          MaxAds,      \* ads shown
          MaxKeys,     \* keys Google signs with, one after another
          MaxFaults    \* lost answers, failed calls, ends of the app

(* What the constants must be; the MC modules assume it of their values. *)
ConstantsFit ==
  /\ {MaxIntents, MaxAds, MaxFaults} \subseteq Nat
  /\ MaxKeys \in Nat \ {0}        \* Google signs with a key from the start

VARIABLES once,      \* a witness is granted once, more days any number of times
          eligible,  \* what the promise and the role allow besides
          intent,    \* reward_intents: the status
          live,      \* intents whose expires_at has not come
          ad,        \* what AdMob knows of an ad
          signing,   \* the key Google signs with
          cache,     \* keys reward-callback holds, and whether it just asked again
          sheet,     \* the sheet of the app
          faults

vars == <<once, eligible, intent, live, ad, signing, cache, sheet, faults>>

RewardIntents == 1 .. MaxIntents
Ads     == 1 .. MaxAds
NoAd    == [state |-> "none", intent |-> 0, inTime |-> FALSE, key |-> 0]
NoKeys  == [keys |-> {}, forced |-> FALSE]
Closed  == [pc |-> "idle", intent |-> 0, ad |-> 0]

Init == /\ once \in BOOLEAN /\ eligible = TRUE
        /\ intent = [i \in RewardIntents |-> "none"] /\ live = {}
        /\ ad = [a \in Ads |-> NoAd]
        /\ signing = 1 /\ cache = NoKeys
        /\ sheet = Closed /\ faults = 0

Fault == faults < MaxFaults /\ faults' = faults + 1
--------------------------------------------------------------------------
(* lf_reward_action_allowed *)
AllowedAgain == eligible
Allowed == eligible /\ (once => \A i \in RewardIntents : intent[i] # "GRANTED")

(* lf_reward_intent_create: the intent that waits is given again; one that   *)
(* has expired makes way for a new one.                                     *)
Waiting == {i \in live : intent[i] = "PENDING"}
Press ==
  /\ sheet.pc = "idle" /\ Allowed
  /\ \E i \in RewardIntents :
       /\ IF Waiting # {} THEN i \in Waiting /\ UNCHANGED <<intent, live>>
          ELSE /\ intent[i] = "none" /\ \A j \in 1 .. i - 1 : intent[j] # "none"
               /\ live' = live \cup {i}
               /\ intent' = [j \in RewardIntents |-> IF j = i THEN "PENDING"
                                ELSE IF intent[j] = "PENDING" THEN "REJECTED" ELSE intent[j]]
       /\ \/ sheet' = [Closed EXCEPT !.pc = "ad", !.intent = i] /\ UNCHANGED faults
          \/ UNCHANGED sheet /\ Fault
  /\ UNCHANGED <<once, eligible, ad, signing, cache>>

(* showRewardedAd: loaded and shown, or not to be had.  What was watched is  *)
(* known to AdMob whatever becomes of the app.                              *)
Show(a) ==
  /\ sheet.pc = "ad" /\ ad[a] = NoAd /\ \A b \in 1 .. a - 1 : ad[b] # NoAd
  /\ ad' = [ad EXCEPT ![a] = [NoAd EXCEPT !.state = "on", !.intent = sheet.intent]]
  /\ sheet' = [sheet EXCEPT !.pc = "watch", !.ad = a]
  /\ UNCHANGED <<once, eligible, intent, live, signing, cache, faults>>
Earn(a) ==
  /\ ad[a].state = "on" /\ sheet.pc = "watch" /\ sheet.ad = a
  /\ ad' = [ad EXCEPT ![a] = [ad[a] EXCEPT !.state = "earned", !.inTime = (ad[a].intent \in live), !.key = signing]]
  /\ UNCHANGED <<once, eligible, intent, live, signing, cache, sheet, faults>>
Unlock == /\ UNCHANGED <<once, eligible, intent, live, ad, signing, cache>>
          /\ \/ sheet.pc = "ad" /\ sheet' = Closed /\ UNCHANGED faults            \* UNAVAILABLE
             \/ /\ sheet.pc = "watch" /\ UNCHANGED faults                          \* CLOSED
                /\ sheet' = IF ad[sheet.ad].state = "on" THEN Closed ELSE [sheet EXCEPT !.pc = "poll"]
             \/ sheet.pc = "poll" /\ sheet' = Closed /\ UNCHANGED faults          \* settled, or no more time
             \/ sheet.pc # "idle" /\ sheet' = Closed /\ Fault

--------------------------------------------------------------------------
(* lf_reward_grant.  The intent's 15 minutes are judged by when the ad was   *)
(* watched, as signed.  (A transaction can only return to the intent it was  *)
(* granted for, which is GRANTED by then.)                                  *)
InTimeOnArrival(a) == ad[a].intent \in live
InTime(a) == ad[a].inTime
Granted(a) ==
  LET i == ad[a].intent
  IN IF intent[i] # "PENDING" \/ ~InTime(a) THEN intent
     ELSE [intent EXCEPT ![i] = IF Allowed THEN "GRANTED" ELSE "REJECTED"]

(* reward-callback.  A key that is not in the cache makes it ask once more,  *)
(* at most once a minute; without the key the answer is 401 and AdMob comes  *)
(* again, as it does after a 500 or when the answer is lost.                *)
Published == 1 .. signing
Fresh == IF cache.keys = {} THEN Published ELSE cache.keys
AsksAgain(a) == ad[a].key \notin Fresh /\ ~cache.forced
KeysFor(a) == IF AsksAgain(a) THEN Published ELSE Fresh
Callback(a) ==
  /\ ad[a].state = "earned"
  /\ cache' = [keys |-> KeysFor(a), forced |-> cache.forced \/ AsksAgain(a)]
  /\ IF ad[a].key \notin KeysFor(a) THEN UNCHANGED <<intent, ad, faults>>
     ELSE /\ intent' = Granted(a)
          /\ \/ ad' = [ad EXCEPT ![a].state = "answered"] /\ UNCHANGED faults
             \/ UNCHANGED ad /\ Fault
  /\ UNCHANGED <<once, eligible, live, signing, sheet>>
(* The keys cannot be fetched, or the database does not answer: 500.  An     *)
(* attempt to ask again counts for its minute all the same.                 *)
CallbackFails(a) ==
  /\ ad[a].state = "earned" /\ Fault
  /\ cache' \in {[cache EXCEPT !.forced = @ \/ AsksAgain(a)],
                 [keys |-> KeysFor(a), forced |-> cache.forced \/ AsksAgain(a)]}
  /\ UNCHANGED <<once, eligible, intent, live, ad, signing, sheet>>

--------------------------------------------------------------------------
(* Time: a minute passes, a day passes or another instance answers, an       *)
(* intent's time is over, Google takes another key, the promise moves on.    *)
MinuteOver == cache.forced /\ cache' = [cache EXCEPT !.forced = FALSE]
              /\ UNCHANGED <<once, eligible, intent, live, ad, signing, sheet, faults>>
CacheEnds == cache.keys # {} /\ cache' = NoKeys
             /\ UNCHANGED <<once, eligible, intent, live, ad, signing, sheet, faults>>
Expires(i) == i \in live /\ live' = live \ {i}
              /\ UNCHANGED <<once, eligible, intent, ad, signing, cache, sheet, faults>>
Rotates == signing < MaxKeys /\ signing' = signing + 1
           /\ UNCHANGED <<once, eligible, intent, live, ad, cache, sheet, faults>>
MovesOn == eligible /\ eligible' = FALSE
           /\ UNCHANGED <<once, intent, live, ad, signing, cache, sheet, faults>>

Next == \/ Press \/ Unlock \/ MinuteOver \/ CacheEnds \/ Rotates \/ MovesOn
        \/ \E a \in Ads : Show(a) \/ Earn(a) \/ Callback(a) \/ CallbackFails(a)
        \/ \E i \in RewardIntents : Expires(i)

(* AdMob reports until it is answered, and minutes pass.  Nobody has to      *)
(* watch anything.                                                          *)
Fairness == WF_vars(MinuteOver) /\ \A a \in Ads : WF_vars(Callback(a))
Spec == Init /\ [][Next]_vars /\ Fairness

--------------------------------------------------------------------------
(* Two intents never share a status of which there is one. *)
AtMostOne(state) ==
  \A i, j \in RewardIntents : intent[i] = state /\ intent[j] = state => i = j

(* The tables have their types; one intent waits at a time, and a witness is *)
(* granted once, however late the ads of earlier intents are reported.      *)
TypeOK ==
  /\ intent \in [RewardIntents -> {"none", "PENDING", "GRANTED", "REJECTED"}]
  /\ live \subseteq RewardIntents /\ cache.keys \subseteq 1 .. MaxKeys
  /\ ad \in [Ads -> [state : {"none", "on", "earned", "answered"}, intent : 0 .. MaxIntents,
                     inTime : BOOLEAN, key : 0 .. MaxKeys]]
  /\ AtMostOne("PENDING") /\ (once => AtMostOne("GRANTED"))

(* Whoever watched an ad in the time of its intent gets it decided, and      *)
(* granted as long as the promise allows it and no newer intent took its     *)
(* place: also when Google changes keys, the keys cannot be had for a while, *)
(* or the report comes after that time.                                     *)
Decided(i) ==
  \/ intent[i] = "GRANTED"
  \/ intent[i] = "REJECTED" /\ (~Allowed \/ \E j \in RewardIntents : j > i /\ intent[j] # "none")
WatchedIsDecided == <>[](\A a \in Ads : ad[a].inTime => Decided(ad[a].intent))
=============================================================================
