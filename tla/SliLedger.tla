------------------------------ MODULE SliLedger ------------------------------
(***************************************************************************)
(* What the external SLI publisher promises, whatever fails and however     *)
(* many of its runs overlap: time is accounted for from Origin on, without  *)
(* a gap, at least once, never before it has closed, and the cursor only    *)
(* ever names a point up to which everything has been accounted for.        *)
(*                                                                         *)
(* ExternalSliPublisher implements this specification.                      *)
(***************************************************************************)
EXTENDS Integers

CONSTANT Origin   \* accounting starts here

VARIABLES
  closed,     \* the time that has passed
  accounted,  \* the instants some sample set accounts for
  cursor      \* the saved position

ledgerVars == <<closed, accounted, cursor>>

(* Everything from Origin up to p has been accounted for. *)
AccountedUpTo(p) == \A t \in Origin .. p - 1 : t \in accounted

LedgerInit ==
  /\ closed \in Int
  /\ accounted = {}
  /\ cursor = Origin

TimePasses ==
  /\ closed' = closed + 1
  /\ UNCHANGED <<accounted, cursor>>

(* The time from a point reached without a gap is accounted for, again or   *)
(* for the first time.                                                      *)
Account ==
  \E from, to \in Origin .. closed :
    /\ from < to
    /\ AccountedUpTo(from)
    /\ accounted' = accounted \cup (from .. to - 1)
    /\ UNCHANGED <<closed, cursor>>

(* The cursor is set, possibly back to where it has been. *)
Commit ==
  \E p \in Origin .. closed :
    /\ AccountedUpTo(p)
    /\ cursor' = p
    /\ UNCHANGED <<closed, accounted>>

LedgerNext == TimePasses \/ Account \/ Commit

LedgerSpec == LedgerInit /\ [][LedgerNext]_ledgerVars
=============================================================================
