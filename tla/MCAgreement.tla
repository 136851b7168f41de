---------------------------- MODULE MCAgreement ----------------------------
(* Agreement on a small instance.  Users are interchangeable in every      *)
(* safety property, so the safety runs identify states up to renaming      *)
(* them; the liveness run does not.                                        *)
EXTENDS Agreement, TLC

UserSymmetry == Permutations(Users) \cup Permutations(Promises)
=============================================================================
