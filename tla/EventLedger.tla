---------------------------- MODULE EventLedger ----------------------------
(***************************************************************************)
(* What a StorageWorker promises the pipeline that feeds it, with nothing  *)
(* said of threads, batches or sessions: accepted events wait in the order *)
(* of their arrival; the head of that line is moved to the store, several  *)
(* events at once and all or none of them, or is given up.  No event       *)
(* overtakes another, comes back, or is stored twice.                      *)
(***************************************************************************)
EXTENDS Naturals, Sequences

CONSTANT Events

VARIABLES held,     \* accepted, neither stored nor given up
          stored    \* the rows of the store, in commit order

ledgerVars == <<held, stored>>

In(s) == {s[i] : i \in DOMAIN s}

LedgerTypeOK == held \in Seq(Events) /\ stored \in Seq(Events)

LedgerInit == held = <<>> /\ stored = <<>>

Accept(e) ==
    /\ e \notin In(held) \cup In(stored)
    /\ held' = Append(held, e)
    /\ UNCHANGED stored

RemoveFirst(k) == held' = SubSeq(held, k + 1, Len(held))

Store(k) ==
    /\ stored' = stored \o SubSeq(held, 1, k)
    /\ RemoveFirst(k)

GiveUp(k) == RemoveFirst(k) /\ UNCHANGED stored

LedgerNext ==
    \/ \E e \in Events : Accept(e)
    \/ \E k \in 1..Len(held) : Store(k) \/ GiveUp(k)

LedgerSpec == LedgerInit /\ [][LedgerNext]_ledgerVars
=============================================================================
