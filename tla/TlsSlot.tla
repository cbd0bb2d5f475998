------------------------------ MODULE TlsSlot ------------------------------
(***************************************************************************)
(* CluaTls_Ensure (jit/tls_slot.h): lazy allocation of one process-global  *)
(* Win32 TLS slot, raced by any number of OS threads.  The slot cell holds *)
(* the sentinel TLS_OUT_OF_INDEXES until the first compare-exchange wins;  *)
(* a loser frees the spare index it allocated.  The setters of the         *)
(* execution state (SetCurrentCoro, Veh_SetJitFrame, the tail-call flag)   *)
(* call it and then TlsSetValue; the getters only load the cell.           *)
(***************************************************************************)
EXTENDS Naturals, FiniteSets

CONSTANTS Thread,  \* the OS threads
          Slot,    \* the TLS indexes the operating system can hand out
          None     \* TLS_OUT_OF_INDEXES, and a thread's unset (NULL) value

ASSUME TlsAssumption == None \notin Slot /\ None \notin Thread

VARIABLES cell,    \* *PSlot: the published index or the sentinel
          taken,   \* the indexes TlsAlloc has handed out and TlsFree not back
          step,    \* where each thread is in CluaTls_Ensure and its caller
          spare,   \* the local s of CluaTls_Ensure
          slot,    \* the index CluaTls_Ensure returned to the caller
          value    \* TlsGetValue: what thread t stored under index s

tlsVars == <<cell, taken, step, spare, slot, value>>

TlsTypeOK ==
  /\ cell \in Slot \cup {None}
  /\ taken \subseteq Slot
  /\ step \in [Thread -> {"idle", "alloc", "cas", "free", "store"}]
  /\ spare \in [Thread -> Slot \cup {None}]
  /\ slot \in [Thread -> Slot \cup {None}]
  /\ value \in [Thread -> [Slot -> Thread \cup {None}]]

(* Mutant: the cell is a zeroed static instead of TLS_OUT_OF_INDEXES.      *)
TlsInitZeroed ==
  /\ cell = 0
  /\ taken = {}
  /\ step = [t \in Thread |-> "idle"]
  /\ spare = [t \in Thread |-> None]
  /\ slot = [t \in Thread |-> None]
  /\ value = [t \in Thread |-> [s \in Slot |-> None]]

TlsInit ==
  /\ cell = None
  /\ taken = {}
  /\ step = [t \in Thread |-> "idle"]
  /\ spare = [t \in Thread |-> None]
  /\ slot = [t \in Thread |-> None]
  /\ value = [t \in Thread |-> [s \in Slot |-> None]]

(* The plain load of *PSlot on entry: a published index is final. *)
Load(t) ==
  /\ step[t] = "idle"
  /\ IF cell = None
       THEN /\ step' = [step EXCEPT ![t] = "alloc"]
            /\ UNCHANGED slot
       ELSE /\ slot' = [slot EXCEPT ![t] = cell]
            /\ step' = [step EXCEPT ![t] = "store"]
  /\ UNCHANGED <<cell, taken, spare, value>>

(* TlsAlloc succeeds: the index is this thread's spare until the exchange. *)
Alloc(t) ==
  /\ step[t] = "alloc"
  /\ \E s \in Slot \ taken :
       /\ taken' = taken \cup {s}
       /\ spare' = [spare EXCEPT ![t] = s]
  /\ step' = [step EXCEPT ![t] = "cas"]
  /\ UNCHANGED <<cell, slot, value>>

(* TlsAlloc fails: no index left.  The setter then stores nothing at all. *)
AllocFails(t) ==
  /\ step[t] = "alloc"
  /\ taken = Slot
  /\ step' = [step EXCEPT ![t] = "idle"]
  /\ UNCHANGED <<cell, taken, spare, slot, value>>

(* Mutant: a loser returns its own index after freeing it.                 *)
ExchangeOwn(t) ==
  /\ step[t] = "cas"
  /\ slot' = [slot EXCEPT ![t] = spare[t]]
  /\ IF cell = None
       THEN /\ cell' = spare[t]
            /\ spare' = [spare EXCEPT ![t] = None]
            /\ step' = [step EXCEPT ![t] = "store"]
       ELSE /\ step' = [step EXCEPT ![t] = "free"]
            /\ UNCHANGED <<cell, spare>>
  /\ UNCHANGED <<taken, value>>

(* InterlockedCompareExchange: the first one publishes, a loser takes the  *)
(* published index and still has its spare to give back.                   *)
Exchange(t) ==
  /\ step[t] = "cas"
  /\ IF cell = None
       THEN /\ cell' = spare[t]
            /\ slot' = [slot EXCEPT ![t] = spare[t]]
            /\ spare' = [spare EXCEPT ![t] = None]
            /\ step' = [step EXCEPT ![t] = "store"]
       ELSE /\ slot' = [slot EXCEPT ![t] = cell]
            /\ step' = [step EXCEPT ![t] = "free"]
            /\ UNCHANGED <<cell, spare>>
  /\ UNCHANGED <<taken, value>>

(* Mutant: the spare index is dropped without TlsFree.                     *)
FreeSpareForgotten(t) ==
  /\ step[t] = "free"
  /\ spare' = [spare EXCEPT ![t] = None]
  /\ step' = [step EXCEPT ![t] = "store"]
  /\ UNCHANGED <<cell, taken, slot, value>>

(* TlsFree of a loser's spare index. *)
FreeSpare(t) ==
  /\ step[t] = "free"
  /\ taken' = taken \ {spare[t]}
  /\ spare' = [spare EXCEPT ![t] = None]
  /\ step' = [step EXCEPT ![t] = "store"]
  /\ UNCHANGED <<cell, slot, value>>

(* The caller's TlsSetValue; a thread stores its own mark, or clears it.   *)
Store(t) ==
  /\ step[t] = "store"
  /\ \E v \in {t, None} : value' = [value EXCEPT ![t][slot[t]] = v]
  /\ step' = [step EXCEPT ![t] = "idle"]
  /\ UNCHANGED <<cell, taken, spare, slot>>

TlsStep(t) ==
  Load(t) \/ Alloc(t) \/ AllocFails(t) \/ Exchange(t) \/ FreeSpare(t) \/ Store(t)

TlsNext == \E t \in Thread : TlsStep(t)

TlsSpec == TlsInit /\ [][TlsNext]_tlsVars

-----------------------------------------------------------------------------

(* An index no thread holds as a spare is the published one: losing the    *)
(* race never leaks an index, however many threads lose.                   *)
NoLeakedSlot ==
  \A s \in taken : s = cell \/ \E t \in Thread : spare[t] = s

ReturnsPublished ==
  \A t \in Thread :
    step[t] \in {"free", "store"} => slot[t] = cell /\ cell \in taken

ValuesUnderPublished ==
  \A t \in Thread, s \in Slot : value[t][s] # None => s = cell

(* Every index a thread is about to store through is the one published     *)
(* index, still allocated, and no value lies under any other: a loser      *)
(* never stores through an index it freed, no two threads disagree about   *)
(* where the state lives, and a getter reads what its thread last wrote.   *)
OneSlot == ReturnsPublished /\ ValuesUnderPublished
=============================================================================
