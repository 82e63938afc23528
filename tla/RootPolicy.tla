----------------------------- MODULE RootPolicy -----------------------------
(***************************************************************************)
(* The two tools that edit the live root policy: `mingo set-root-admin`    *)
(* and `mingo add-policy-layer` (mingo-app/src/set_root_admin.rs and       *)
(* add_policy_layer.rs).  Each fetches the policy, edits its copy and      *)
(* submits the whole object, signed by the sys key and without `prev`.     *)
(*                                                                         *)
(* A policy is its admins and the sequence of its other entries (grants    *)
(* and restrictions).  The daemon is external: it takes a policy signed by *)
(* an admin key of the state it has synced, shows what is pending as       *)
(* unconfirmed while its overlay remembers it, and applies it when its     *)
(* block is synced, if it ever is.                                         *)
(***************************************************************************)
EXTENDS Naturals, Sequences, FiniteSets, SequencesExt

CONSTANTS
  Operators,   \* shells the tools are run from; in one, one run after the other
  Sys,         \* the sys key
  Others,      \* the other identities an operator may name
  Genesis,     \* the entry of the genesis policy
  Entries,     \* the entries of application layers
  Layers,      \* the layer files: sequences of entries
  MaxRuns

ASSUME RootPolicyAssumption ==
  /\ Sys \notin Others /\ Genesis \notin Entries /\ MaxRuns \in Nat
  /\ Layers \subseteq Seq(Entries)

VARIABLES
  policy,      \* the policy of the state the daemon has synced
  pending,     \* policies accepted and not yet synced, in order
  hidden,      \* how many of them, the oldest, the daemon's overlay has forgotten
  at,          \* per operator: idle, or the tool between fetch and submit
  update,      \* per operator: the edited copy
  runs,        \* runs of the tools so far
  acked,       \* history: an operator passed --i-understand-cutover
  overlapped,  \* history: two tools were between fetch and submit at once
  blind        \* history: a tool read the policy in force while a later one was forgotten

vars == <<policy, pending, hidden, at, update, runs, acked, overlapped, blind>>

Admins == SUBSET (Others \cup {Sys})
IsPolicy(x) == x.admin \in Admins /\ x.entries \in Seq(Entries \cup {Genesis})

Init ==
  /\ policy = [admin |-> {Sys}, entries |-> <<Genesis>>]
  /\ pending = <<>> /\ hidden = 0
  /\ at = [o \in Operators |-> "idle"]
  /\ update = [o \in Operators |-> policy]
  /\ runs = 0 /\ acked = FALSE /\ overlapped = FALSE /\ blind = FALSE

\* The daemon has no pending object to show.
Confirmed == hidden = Len(pending)

\* Mutant: only what is synced is read.
FetchedSynced == policy

\* fetch_root_policy: the pending object, if the daemon shows one.
Fetched == IF Confirmed THEN policy ELSE pending[Len(pending)]

mutate_admin(p, admins) == [admin |-> admins, entries |-> p.entries]

\* Mutant: entries are appended without looking for them.
merge_blind(p, layer) == [admin |-> p.admin, entries |-> p.entries \o <<layer[1]>>]

\* An entry that is already there is not pushed again.
Push(es, e) == IF e \in Range(es) THEN es ELSE Append(es, e)

\* merge: the entries that are not there yet, each once, at the end.
merge(p, layer) ==
  LET Merged[n \in 0 .. Len(layer)] ==
        IF n = 0 THEN p.entries ELSE Push(Merged[n - 1], layer[n])
  IN [admin |-> p.admin, entries |-> Merged[Len(layer)]]

\* Mutant: the cutover is judged by the current list.
CutoverOfCurrent(admins) == Sys \notin Fetched.admin

is_cutover(admins) == Sys \notin admins

\* Another tool has read the policy and not yet written it.
Overlap(o) == \E p \in Operators \ {o} : at[p] = "submit"

\* The histories of a read.
Reads(o) ==
  /\ overlapped' = (overlapped \/ Overlap(o))
  /\ blind' = (blind \/ (Confirmed /\ pending # <<>>))

\* set-root-admin --execute up to its submit: no look at `confirmed`; an
\* unacknowledged cutover aborts.
FetchForAdmin(o) ==
  /\ at[o] = "idle" /\ runs < MaxRuns
  /\ \E admins \in Admins \ {{}}, understood \in BOOLEAN :
       /\ is_cutover(admins) => understood
       /\ update' = [update EXCEPT ![o] = mutate_admin(Fetched, admins)]
       /\ acked' = (acked \/ understood)
  /\ at' = [at EXCEPT ![o] = "submit"]
  /\ runs' = runs + 1
  /\ Reads(o)
  /\ UNCHANGED <<policy, pending, hidden>>

\* add-policy-layer --execute up to its submit: an unconfirmed policy and a
\* layer with nothing new end it.
FetchForLayer(o) ==
  /\ at[o] = "idle" /\ runs < MaxRuns
  /\ Confirmed
  /\ \E layer \in Layers :
       /\ merge(Fetched, layer) # Fetched
       /\ update' = [update EXCEPT ![o] = merge(Fetched, layer)]
  /\ at' = [at EXCEPT ![o] = "submit"]
  /\ runs' = runs + 1
  /\ Reads(o)
  /\ UNCHANGED <<policy, pending, hidden, acked>>

\* The POST: taken or refused by the daemon, or lost.  Either way the tool ends.
Submit(o) ==
  /\ at[o] = "submit"
  /\ \/ Sys \in policy.admin /\ pending' = Append(pending, update[o])
     \/ UNCHANGED pending
  /\ at' = [at EXCEPT ![o] = "idle"]
  /\ UNCHANGED <<policy, hidden, update, runs, acked, overlapped, blind>>

\* The oldest pending policy leaves the queue.
Shift == pending # <<>> /\ pending' = Tail(pending) /\ hidden' = IF hidden = 0 THEN 0 ELSE hidden - 1

\* The daemon syncs past the block of the oldest pending policy, which is
\* judged again by the policy in force.
Sync ==
  /\ Shift
  /\ policy' = IF Sys \in policy.admin THEN Head(pending) ELSE policy
  /\ UNCHANGED <<at, update, runs, acked, overlapped, blind>>

\* "a value that may not stick": the oldest pending policy is in no block.
Drop ==
  /\ Shift
  /\ UNCHANGED <<policy, at, update, runs, acked, overlapped, blind>>

\* The overlay loses what is pending, by a restart of the daemon, though its
\* blocks may still come.
Forget ==
  /\ hidden' \in hidden + 1 .. Len(pending)
  /\ UNCHANGED <<policy, pending, at, update, runs, acked, overlapped, blind>>

Next ==
  \/ \E o \in Operators : FetchForAdmin(o) \/ FetchForLayer(o) \/ Submit(o)
  \/ Sync \/ Drop \/ Forget

Spec == Init /\ [][Next]_vars

-----------------------------------------------------------------------------
(* Properties.                                                             *)

TypeOK ==
  /\ IsPolicy(policy)
  /\ \A n \in DOMAIN pending : IsPolicy(pending[n])
  /\ hidden \in 0 .. Len(pending)
  /\ at \in [Operators -> {"idle", "submit"}]
  /\ \A o \in Operators : IsPolicy(update[o])
  /\ runs \in 0 .. MaxRuns /\ acked \in BOOLEAN /\ overlapped \in BOOLEAN /\ blind \in BOOLEAN

\* The sys key loses its authority only after an operator has acknowledged the
\* cutover, however reads, submits, lost blocks and the other tool interleave.
CutoverAcknowledged == Sys \notin policy.admin => acked

\* "re-running is a no-op rather than a duplicate": no entry is ever in force
\* twice, whatever was submitted again or lost in between.
NoDuplicateEntry == IsInjective(policy.entries)

\* "every pre-existing grant and restriction must still be present, in order":
\* used one after the other, from any shells, the tools never lose or move an
\* entry in force, whatever was lost, dropped or still unsynced when they read.
\* The reservations are needed: an update carries no `prev`, so of two edits of
\* the same copy the later one writes over what the earlier one added, and an edit
\* of the policy in force over one that is on its way but no longer shown.
PriorEntriesKept == [][overlapped \/ blind \/ IsPrefix(policy.entries, policy'.entries)]_vars
=============================================================================
