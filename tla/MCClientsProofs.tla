--------------------------- MODULE MCClientsProofs ---------------------------
(* The promises of MCClients about screens, photos in storage, purchases and  *)
(* the creator's devices, for any number of rounds, keys, uploads, purchases   *)
(* and devices: a behaviour is about one of these parts, and no other moves    *)
(* the part's tables.                                                         *)
EXTENDS MCClients, TLAPS

(* What is bought on the phone is bought by one account, or by many.          *)
ShopInv == IF part = "two users" THEN TwoUsers!IInv ELSE Shop!IInv
(* A screen has the invariant of its part; where no screen moves it is as the  *)
(* last one leaves it.                                                       *)
Narrow == {"presses", "one photo", "app rounds", "app keys", "app saves"}
ScreenInv == /\ part = "presses" => Presses!IInv
             /\ part = "one photo" => OnePhoto!IInv
             /\ part = "app rounds" => AppRounds!IInv
             /\ part = "app keys" => AppKeys!IInv
             /\ part = "app saves" => AppSaves!IInv
             /\ part \notin Narrow => Losses!IInv
IInv == Photo!IInv /\ Tx!IInv /\ Tx!SlotInv /\ ShopInv /\ ScreenInv

LEMMA InitIInv == Init => IInv
  <1> SUFFICES ASSUME Init PROVE IInv
    OBVIOUS
  <1>1. Photo!ConstantsFit /\ Shop!ConstantsFit /\ TwoUsers!ConstantsFit /\ Tx!ConstantsFit
    BY ClientConstants DEF ClientConstants
  <1>2. Photo!Init /\ Tx!Init /\ IF part = "two users" THEN TwoUsers!Init ELSE Shop!Init
    BY DEF Init
  <1>3. Photo!IInv
    BY <1>1, <1>2, Photo!InitIInv
  <1>4. Tx!IInv /\ Tx!SlotInv
    BY <1>1, <1>2, Tx!InitIInv, Tx!InitSlots
  <1>5. ShopInv
    <2>1. CASE part = "two users"
      BY <1>1, <1>2, <2>1, TwoUsers!InitIInv DEF ShopInv
    <2>2. CASE part # "two users"
      BY <1>1, <1>2, <2>2, Shop!InitIInv DEF ShopInv
    <2> QED BY <2>1, <2>2
  <1>6. ScreenInv
    <2>1. /\ Presses!ConstantsFit /\ Losses!ConstantsFit /\ OnePhoto!ConstantsFit
          /\ AppRounds!ConstantsFit /\ AppKeys!ConstantsFit
          /\ AppSaves!ConstantsFit
      BY ClientConstants DEF ClientConstants
    <2>2. /\ part = "presses" => Presses!Init
          /\ part = "one photo" => OnePhoto!Init
          /\ part = "app rounds" => AppRounds!Init
          /\ part = "app keys" => AppKeys!Init
          /\ part = "app saves" => AppSaves!Init
          /\ part \notin Narrow => Losses!Init
      BY DEF Init, Narrow
    <2>3. part = "presses" => Presses!IInv
      BY <2>1, <2>2, Presses!InitIInv
    <2>4. part = "one photo" => OnePhoto!IInv
      BY <2>1, <2>2, OnePhoto!InitIInv
    <2>5. part = "app rounds" => AppRounds!IInv
      BY <2>1, <2>2, AppRounds!InitIInv
    <2>6. part = "app keys" => AppKeys!IInv
      BY <2>1, <2>2, AppKeys!InitIInv
    <2>7. part = "app saves" => AppSaves!IInv
      BY <2>1, <2>2, AppSaves!InitIInv
    <2>8. part \notin Narrow => Losses!IInv
      BY <2>1, <2>2, Losses!InitIInv
    <2> QED BY <2>3, <2>4, <2>5, <2>6, <2>7, <2>8 DEF ScreenInv
  <1> QED BY <1>3, <1>4, <1>5, <1>6 DEF IInv

(* A behaviour stays with its part, and a step leaves the tables of the other *)
(* parts alone.                                                              *)
Apart == /\ part' = part
         /\ Photo!Next \/ UNCHANGED Photo!Tables
         /\ part = "two users" => TwoUsers!Next \/ UNCHANGED TwoUsers!Tables
         /\ part # "two users" => Shop!Next \/ UNCHANGED Shop!Tables
         /\ [Tx!Next]_Tx!vars
         /\ part = "presses" => Presses!Next \/ UNCHANGED Presses!Tables
         /\ part = "one photo" => OnePhoto!Next \/ UNCHANGED OnePhoto!Tables
         /\ part = "app rounds" => AppRounds!Next \/ UNCHANGED AppRounds!Tables
         /\ part = "app keys" => AppKeys!Next \/ UNCHANGED AppKeys!Tables
         /\ part = "app saves" => AppSaves!Next \/ UNCHANGED AppSaves!Tables
         /\ part \notin Narrow => Losses!Next \/ UNCHANGED Losses!Tables

LEMMA StepsApart == ASSUME [Next]_vars PROVE Apart
  <1>1. UNCHANGED photos => UNCHANGED Photo!Tables
    BY DEF photos, Photo!Tables, Photo!photos, Photo!life
  <1>2. UNCHANGED shop => UNCHANGED Shop!Tables /\ UNCHANGED TwoUsers!Tables
    BY DEF shop, Shop!Tables, TwoUsers!Tables
  <1>3. UNCHANGED tx => UNCHANGED Tx!vars
    BY DEF tx, Tx!vars, Tx!tables, Tx!locks
  <1>0. UNCHANGED screen =>
          /\ UNCHANGED Presses!Tables
          /\ UNCHANGED OnePhoto!Tables
          /\ UNCHANGED AppRounds!Tables
          /\ UNCHANGED AppKeys!Tables
          /\ UNCHANGED AppSaves!Tables
          /\ UNCHANGED Losses!Tables
    BY DEF screen,
       Presses!Tables, OnePhoto!Tables, AppRounds!Tables, AppKeys!Tables, AppSaves!Tables, Losses!Tables
  <1>4. CASE /\ UNCHANGED <<photos, shop, tx>>
             /\ \/ On("presses") /\ Presses!Next
                \/ On("losses") /\ Losses!Next
                \/ On("one photo") /\ OnePhoto!Next
                \/ On("app rounds") /\ AppRounds!Next
                \/ On("app keys") /\ AppKeys!Next
                \/ On("app saves") /\ AppSaves!Next
    BY <1>1, <1>2, <1>3, <1>4 DEF Apart, On, Narrow
  <1>5. CASE \/ On("shop") /\ Shop!Next /\ UNCHANGED <<screen, photos, tx>>
             \/ On("two users") /\ TwoUsers!Next /\ UNCHANGED <<screen, photos, tx>>
    BY <1>0, <1>1, <1>3, <1>5 DEF Apart, On, Narrow
  <1>6. CASE On("photos") /\ Photo!Next /\ UNCHANGED <<screen, shop, tx>>
    BY <1>0, <1>2, <1>3, <1>6 DEF Apart, On, Narrow
  <1>7. CASE On("tx") /\ Tx!Next /\ UNCHANGED <<faults, screen, photos, shop>>
    BY <1>0, <1>1, <1>2, <1>7 DEF Apart, On, Narrow
  <1>8. CASE UNCHANGED vars
    BY <1>0, <1>1, <1>2, <1>3, <1>8 DEF Apart, vars
  <1> QED BY <1>4, <1>5, <1>6, <1>7, <1>8 DEF Next, On

LEMMA StepIInv == ASSUME IInv, [Next]_vars PROVE IInv'
  <1>0. Photo!ConstantsFit /\ Shop!ConstantsFit /\ TwoUsers!ConstantsFit /\ Tx!ConstantsFit
    BY ClientConstants DEF ClientConstants
  <1>1. Apart /\ Photo!IInv /\ Tx!IInv /\ Tx!SlotInv /\ ShopInv /\ ScreenInv
    BY StepsApart DEF IInv
  <1>2. Photo!IInv'
    BY <1>0, <1>1, Photo!StepIInv DEF Apart
  <1>3. Tx!IInv'
    BY <1>0, <1>1, Tx!StepIInv DEF Apart
  <1>4. Tx!SlotInv'
    BY <1>0, <1>1, Tx!StepSlots DEF Apart
  <1>5. ShopInv'
    <2>1. CASE part = "two users"
      BY <1>0, <1>1, <2>1, TwoUsers!StepIInv DEF Apart, ShopInv
    <2>2. CASE part # "two users"
      BY <1>0, <1>1, <2>2, Shop!StepIInv DEF Apart, ShopInv
    <2> QED BY <2>1, <2>2
  <1>6. ScreenInv'
    <2>1. /\ Presses!ConstantsFit /\ Losses!ConstantsFit /\ OnePhoto!ConstantsFit
          /\ AppRounds!ConstantsFit /\ AppKeys!ConstantsFit
          /\ AppSaves!ConstantsFit
      BY ClientConstants DEF ClientConstants
    <2>2. CASE part = "presses"
      <3>1. Presses!IInv'
        BY <1>1, <2>1, <2>2, Presses!StepIInv DEF Apart, ScreenInv
      <3> QED BY <1>1, <2>2, <3>1 DEF Apart, ScreenInv, Narrow
    <2>3. CASE part = "one photo"
      <3>1. OnePhoto!IInv'
        BY <1>1, <2>1, <2>3, OnePhoto!StepIInv DEF Apart, ScreenInv
      <3> QED BY <1>1, <2>3, <3>1 DEF Apart, ScreenInv, Narrow
    <2>4. CASE part = "app rounds"
      <3>1. AppRounds!IInv'
        BY <1>1, <2>1, <2>4, AppRounds!StepIInv DEF Apart, ScreenInv
      <3> QED BY <1>1, <2>4, <3>1 DEF Apart, ScreenInv, Narrow
    <2>5. CASE part = "app keys"
      <3>1. AppKeys!IInv'
        BY <1>1, <2>1, <2>5, AppKeys!StepIInv DEF Apart, ScreenInv
      <3> QED BY <1>1, <2>5, <3>1 DEF Apart, ScreenInv, Narrow
    <2>6. CASE part = "app saves"
      <3>1. AppSaves!IInv'
        BY <1>1, <2>1, <2>6, AppSaves!StepIInv DEF Apart, ScreenInv
      <3> QED BY <1>1, <2>6, <3>1 DEF Apart, ScreenInv, Narrow
    <2>7. CASE part \notin Narrow
      <3>1. Losses!IInv'
        BY <1>1, <2>1, <2>7, Losses!StepIInv DEF Apart, ScreenInv
      <3> QED BY <1>1, <2>7, <3>1 DEF Apart, ScreenInv, Narrow
    <2> QED BY <2>2, <2>3, <2>4, <2>5, <2>6, <2>7 DEF Narrow
  <1> QED BY <1>2, <1>3, <1>4, <1>5, <1>6 DEF IInv

(* Screens, photos, purchases and promise tables keep their invariants.       *)
THEOREM Inductive == Spec => []IInv
  BY InitIInv, StepIInv, PTL DEF Spec

(* What a screen, the storage, the purchases and the promise tables hold has  *)
(* its type.                                                                 *)
THEOREM TypeCorrect == Spec => []TypeOK
  <1>1. ScreenInv =>
          \/ Presses!TypeOK \/ OnePhoto!TypeOK \/ Losses!TypeOK
          \/ AppRounds!TypeOK \/ AppKeys!TypeOK \/ AppSaves!TypeOK
    BY
       Presses!TypesImplyTypeOK, OnePhoto!TypesImplyTypeOK, AppRounds!TypesImplyTypeOK,
       AppKeys!TypesImplyTypeOK, AppSaves!TypesImplyTypeOK,
       Losses!TypesImplyTypeOK
       DEF ScreenInv, Narrow
  <1>2. ScreenInv => Losses!TypeOK
    <2>1. MaxKeys \in Nat \ {0} /\ MaxRounds \in Nat \ {0}
      BY ClientConstants DEF ClientConstants, Losses!ConstantsFit
    <2> QED BY <1>1, <2>1 DEF
       Presses!TypeOK, OnePhoto!TypeOK, AppRounds!TypeOK, AppKeys!TypeOK, AppSaves!TypeOK, Losses!TypeOK,
       Presses!Rounds, OnePhoto!Rounds, AppRounds!Rounds, AppKeys!Rounds, AppSaves!Rounds, Losses!Rounds
  <1>3. Photo!IInv /\ Tx!IInv /\ ShopInv
          => /\ Photo!TypeOK /\ Tx!TypeOK
             /\ IF part = "two users" THEN TwoUsers!TypeOK ELSE Shop!TypeOK
    BY Photo!TypesImplyTypeOK, Tx!TypesImplyTypeOK, Shop!TypesImplyTypeOK, TwoUsers!TypesImplyTypeOK
       DEF Photo!IInv, Tx!IInv, ShopInv, Shop!IInv, TwoUsers!IInv
  <1>4. IInv => TypeOK
    BY <1>2, <1>3 DEF IInv, TypeOK
  <1> QED BY Inductive, <1>4, PTL

(* A screen is told "done" only of what it asked for, however often calls are  *)
(* lost, loaded over or pressed again: the page always, the app until a draft  *)
(* it fetched has replaced what it pressed.                                   *)
THEOREM ConfirmedRight == Spec => ConfirmedIsDone
  <1>1. ScreenInv => Losses!Confirmed
    BY
       Presses!ToldIsAsked, OnePhoto!ToldIsAsked, AppRounds!ToldIsAsked, AppKeys!ToldIsAsked,
       AppSaves!ToldIsAsked, Losses!ToldIsAsked
       DEF ScreenInv, Narrow,
           Presses!Confirmed, OnePhoto!Confirmed, AppRounds!Confirmed, AppKeys!Confirmed,
           AppSaves!Confirmed, Losses!Confirmed
  <1>2. IInv /\ [Next]_vars => [Losses!Confirmed]_Losses!vars
    BY <1>1 DEF IInv
  <1> QED BY Inductive, <1>2, PTL DEF Spec, ConfirmedIsDone, Losses!ConfirmedIsDone, Losses!Confirmed

(* What is entered on the page can be restored if it goes away.               *)
THEOREM DraftsSurvive == Spec => []DraftSurvives
  <1>1. /\ Presses!ConstantsFit /\ Losses!ConstantsFit /\ OnePhoto!ConstantsFit
        /\ AppRounds!ConstantsFit /\ AppKeys!ConstantsFit
        /\ AppSaves!ConstantsFit
    BY ClientConstants DEF ClientConstants
  <1>2. ScreenInv => Losses!DraftSurvives
    BY <1>1,
       Presses!StoredSurvives, OnePhoto!StoredSurvives, AppRounds!StoredSurvives,
       AppKeys!StoredSurvives, AppSaves!StoredSurvives,
       Losses!StoredSurvives
       DEF ScreenInv, Narrow,
           Presses!DraftSurvives, OnePhoto!DraftSurvives, AppRounds!DraftSurvives,
           AppKeys!DraftSurvives, AppSaves!DraftSurvives,
           Losses!DraftSurvives,
           Presses!FormShown, OnePhoto!FormShown, AppRounds!FormShown, AppKeys!FormShown,
           AppSaves!FormShown, Losses!FormShown,
           Presses!Kept, OnePhoto!Kept, AppRounds!Kept, AppKeys!Kept, AppSaves!Kept,
           Losses!Kept
  <1> QED BY Inductive, <1>2, PTL DEF IInv, DraftSurvives

(* A purchase is consumed only when what was paid for has been written for     *)
(* the account that paid, for one account on the phone and for many.         *)
THEOREM SpentIsRight == Spec => []SpentIsGranted
  <1>1. IInv => SpentIsGranted
    BY Shop!SpentIsRight, TwoUsers!SpentIsRight DEF IInv, ShopInv, SpentIsGranted
  <1> QED BY Inductive, <1>1, PTL

(* Any number of devices of the creator stays within the slots.               *)
THEOREM SlotsHold == Spec => []SlotsBounded
  <1>1. IInv => SlotsBounded
    BY DEF IInv, Tx!SlotInv, SlotsBounded
  <1> QED BY Inductive, <1>1, PTL

(* Purge and discard take no object of a photo that is shown, however old     *)
(* their lists are.                                                          *)
THEOREM PurgeIsSparing == Spec => PurgeSparesEvidence
  <1>1. IInv /\ [Next]_vars => [Photo!Spares]_Photo!vars
    BY StepsApart, Photo!StepSpares DEF Apart, IInv
  <1> QED BY Inductive, <1>1, PTL DEF Spec, PurgeSparesEvidence, Photo!PurgeSparesEvidence, Photo!Spares
=============================================================================
