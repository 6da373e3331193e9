----------------------------- MODULE SlotLedger -----------------------------
(***************************************************************************)
(* What the limiter of MCP sessions promises, with nothing of its counters *)
(* and lists: a ledger that keeps every entry for ever.  A slot is taken   *)
(* below the three caps, refused only at one of them, and given back once. *)
(***************************************************************************)
EXTENDS Naturals, FiniteSets

CONSTANTS
  Conns,      \* who may ask for a slot
  Ips,        \* the addresses they ask from
  MaxTotal, MaxPerIp, MaxNew, Window

VARIABLES
  clock,
  address,    \* address[c]: where c asks from
  entry,      \* entry[c]: what became of its request
  since       \* since[c]: when its slot was taken

vars == <<clock, address, entry, since>>

Entries == {"none", "held", "released", "refused"}

Held      == {c \in Conns : entry[c] = "held"}
HeldBy(i) == {c \in Held : address[c] = i}

(* The slots taken from an address in the window that ends now, whatever   *)
(* became of them.                                                         *)
TakenBy(i) ==
  {c \in Conns : /\ entry[c] \in {"held", "released"}
                 /\ address[c] = i
                 /\ since[c] + Window > clock}

BelowCaps(i) ==
  /\ Cardinality(Held) < MaxTotal
  /\ Cardinality(HeldBy(i)) < MaxPerIp
  /\ Cardinality(TakenBy(i)) < MaxNew

Init ==
  /\ clock = 0
  /\ address \in [Conns -> Ips]
  /\ entry = [c \in Conns |-> "none"]
  /\ since = [c \in Conns |-> 0]

Take(c) ==
  /\ entry[c] = "none"
  /\ BelowCaps(address[c])
  /\ entry' = [entry EXCEPT ![c] = "held"]
  /\ since' = [since EXCEPT ![c] = clock]
  /\ UNCHANGED <<clock, address>>

Refuse(c) ==
  /\ entry[c] = "none"
  /\ ~BelowCaps(address[c])
  /\ entry' = [entry EXCEPT ![c] = "refused"]
  /\ UNCHANGED <<clock, address, since>>

GiveBack(c) ==
  /\ entry[c] = "held"
  /\ entry' = [entry EXCEPT ![c] = "released"]
  /\ UNCHANGED <<clock, address, since>>

Pass ==
  /\ clock' = clock + 1
  /\ UNCHANGED <<address, entry, since>>

Next == Pass \/ \E c \in Conns : Take(c) \/ Refuse(c) \/ GiveBack(c)

Spec == Init /\ [][Next]_vars
=============================================================================
