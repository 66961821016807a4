------------------------------ MODULE Interest ------------------------------
(***************************************************************************)
(* The event interest lists of sched (interest.c).  A registration is the  *)
(* pair of an event type and an interested eid, with optional match data.  *)
(*                                                                         *)
(* interest_findByType and interest_findInfo run off their end without a   *)
(* return when nothing matches.  What their caller then sees depends on    *)
(* the build: NULL, or the list head the loop ended on, which the caller   *)
(* takes for an element.  MissingReturn is the set of outcomes to consider.*)
(***************************************************************************)
EXTENDS Dls

CONSTANT MissingReturn

ASSUME MissingReturnAssumption ==
    MissingReturn \in SUBSET {"null", "head"} /\ MissingReturn # {}

Registrations ==
    [ type : MsgTypes, eid : Addr, matchData : Data \cup {NoData} ]

FindByType(ints, t)    == { i \in ints : i.type = t }
FindInfo(ints, t, a)   == { i \in FindByType(ints, t) : i.eid = a }

(***************************************************************************)
(* The outcomes of each operation, as records of the new registrations and *)
(* whether the operation succeeded ("ok"), was refused ("refused") or      *)
(* walked into the memory after a list head ("segv").                      *)
(***************************************************************************)
Outcome(ints, res) == [ints |-> ints, res |-> res]

(* A search that found nothing, in a caller that does not survive a list   *)
(* head in its place.                                                      *)
Miss(ints, onNull) ==
    (IF "null" \in MissingReturn THEN {onNull} ELSE {})
      \cup (IF "head" \in MissingReturn THEN {Outcome(ints, "segv")} ELSE {})

(* Taking the head for an EvtInterestInfo, register may also survive the   *)
(* comparison of the match data and report a duplicate.                    *)
InterestRegister(ints, t, a, md) ==
    LET added == Outcome(ints \cup {[type |-> t, eid |-> a, matchData |-> md]},
                         "ok")
        dup   == Outcome(ints, "refused")
    IN  IF FindInfo(ints, t, a) # {} THEN {dup}
        ELSE Miss(ints, added)
               \cup (IF "head" \in MissingReturn /\ FindByType(ints, t) # {}
                       THEN {dup} ELSE {})

InterestUnregister(ints, t, a) ==
    IF FindInfo(ints, t, a) # {}
      THEN {Outcome(ints \ FindInfo(ints, t, a), "ok")}
      ELSE Miss(ints, Outcome(ints, "refused"))

(* interest_unregisterAll removes the eid from every list; it ends with a  *)
(* pass over the lists on which interest_findInfo never matches.           *)
InterestUnregisterAll(ints, a) ==
    LET rest == { i \in ints : i.eid # a }
    IN  IF rest = {} THEN {Outcome(rest, "ok")}
        ELSE Miss(ints, Outcome(rest, "ok"))
=============================================================================
