------------------------------ MODULE LiveTest ------------------------------
(***************************************************************************)
(* `mingo live-test` (mingo-app/src/livetest.rs): one scenario of the live *)
(* harness, run against a chain that it cannot see but through /v1/submit, *)
(* /v1/object and /v1/state-root, and the sweep that follows.  A scenario  *)
(* is a script: a sequence of writes and waits with what the code makes of *)
(* each result.  Scenarios share no object, so one stands for a run.       *)
(*                                                                         *)
(* The chain is external.  It judges a write when it is submitted and when *)
(* its block is replayed; in between an overlay serves it unconfirmed.     *)
(* The engine under test may misjudge any of the scenario's writes: the    *)
(* question is what the verdicts of the harness are worth.                 *)
(***************************************************************************)
EXTENDS Naturals, Sequences, FiniteSets, SequencesExt

CONSTANTS
  Chosen,         \* the scenarios of this instance
  FinalityBlocks, \* FINALITY_BLOCKS
  MaxDelay,       \* blocks after which an accepted write is replayed at the latest
  MaxFaults,      \* writes the engine misjudges
  None

ASSUME LiveTestAssumption ==
  /\ {FinalityBlocks, MaxDelay, MaxFaults} \subseteq Nat
  /\ MaxDelay \in 1 .. FinalityBlocks

\* None is no outcome and nothing that an object holds.
ASSUME NoneAssumption ==
  /\ None \notin {"Pass", "Fail", "Timeout", "Skip", "Error", "yes"} /\ None # 1
  /\ None \notin [owner : {"a", "b"}, body : {1, 2}]
  /\ None \notin [n : 1 .. 3, pin : 0 .. 3, govern : {"sys", "nobody"}, rule : {"none", "template", "nopin"},
                  shape : {"fits", "exceeds", "lacks"}]

VARIABLES
  scen,       \* the scenario, with or without the sys key
  line,       \* the next step of its script
  sub,        \* the last Submitted: "read" before the POST, else accepted or denied; blocks since its base
  mark,       \* the hash that object_hash read last
  good,       \* the conjunction of the flags a scenario collects
  outcome,    \* None, or the Outcome
  policies,   \* written_policies; what is left of it during the sweep
  store,      \* confirmed objects
  archive,    \* every version of the ancestor policy that was applied
  pending,    \* writes accepted and not yet replayed
  attributed, \* the domain's DNSSEC proof is valid
  faults,     \* steps whose write the engine misjudges
  mishaps     \* history: what went wrong on the way

harness == <<scen, line, sub, mark, good, outcome, policies>>
chain == <<store, archive, pending, attributed, faults>>
LiveVars == <<harness, chain, mishaps>>

-----------------------------------------------------------------------------
(* Writes and steps.                                                       *)

Write(by, act, obj, val) == [by |-> by, act |-> act, obj |-> obj, val |-> val]

Policy(n, pin, govern, rule, shape) ==
  [n |-> n, pin |-> pin, govern |-> govern, rule |-> rule, shape |-> shape]

Membership == [a |-> "membership-a", b |-> "membership-b"]
Moderator == [a |-> "moderator-a", b |-> "moderator-b"]

Ancestor(n, govern, rule) == Policy(n, 0, govern, rule, "fits")
Child(n, pin, shape) == Policy(n, pin, "nobody", "none", shape)

\* A write, and what the scenario does if it is denied: return it as a failure,
\* bail out, or go on.
Submit(w, denied) == [op |-> "submit", w |-> w, obj |-> w.obj, want |-> None, else |-> denied]

\* A wait, and what the scenario does with its result.
Wait(op, obj, else) == [op |-> op, w |-> None, obj |-> obj, want |-> None, else |-> else]
Body(obj, want) == [op |-> "present", w |-> None, obj |-> obj, want |-> want, else |-> "return"]

write_post(u, body) == Write(u, "post", "post", [owner |-> u, body |-> body])
write_delete(u) == Write(u, "delete", "post", None)
write_attestation(u) == Write("issuer", "post", Moderator[u], "yes")
assemble_policy(u) == Write(u, "post", "capture", "yes")
sys_install(obj, p) == Write("sys", "post", obj, p)
sys_delete_policy(obj) == Write("sys", "delete", obj, None)

provision == <<Wait("provision", None, "error")>>
require_present(obj) == <<Wait("present", obj, "error")>>
object_hash(obj) == <<Wait("hash", obj, "error")>>

join_and_confirm(u) ==
  <<Submit(Write(u, "post", Membership[u], "yes"), "error")>> \o require_present(Membership[u])

\* A write of a prerequisite, whose denial is a failure, confirmed.
Confirmed(w) == <<Submit(w, "fail")>> \o require_present(w.obj)

\* An amendment of the ancestor, and the wait for its new version: only a
\* timeout stops the scenario.
Amended(n, govern, timedOut) ==
  object_hash("A") \o <<Submit(sys_install("A", Ancestor(n, govern, "none")), "fail"), Wait("changed", "A", timedOut)>>

\* A child policy that must be accepted, one that must be rejected.
Accepted(obj, p) == <<Submit(sys_install(obj, p), "go"), Wait("present", obj, "accepted")>>
Rejected(obj, p) == <<Submit(sys_install(obj, p), "go"), Wait("absent", obj, "flag")>>

\* An update of a child policy, whose hash must change or stay.
Updated(obj, p, op, else) == object_hash(obj) \o <<Submit(sys_install(obj, p), "go"), Wait(op, obj, else)>>

-----------------------------------------------------------------------------
(* The scenarios.                                                          *)

s1_capture_fix ==
  provision \o join_and_confirm("a")
  \o <<Submit(assemble_policy("a"), "go"), Wait("absent", "capture", "return")>>

s2_non_member_denied ==
  provision \o <<Submit(write_post("a", 1), "go"), Wait("absent", "post", "return")>>

s3_member_can_post ==
  provision \o join_and_confirm("a") \o <<Submit(write_post("a", 1), "fail"), Body("post", 1)>>

s4_owner_only_update ==
  provision \o join_and_confirm("a") \o join_and_confirm("b") \o Confirmed(write_post("a", 1))
  \o <<Submit(write_post("b", 2), "go"), Wait("head", None, "go"), Body("post", 1)>>

s5_author_delete ==
  provision \o join_and_confirm("a") \o Confirmed(write_post("a", 1))
  \o <<Submit(write_delete("a"), "go"), Wait("deleted", "post", "return")>>

s6_moderator_delete ==
  provision \o join_and_confirm("a") \o join_and_confirm("b")
  \o provision \o Confirmed(write_attestation("b")) \o Confirmed(write_post("a", 1))
  \o <<Submit(write_delete("b"), "go"), Wait("deleted", "post", "return")>>

s7_non_moderator_delete ==
  provision \o join_and_confirm("a") \o join_and_confirm("b") \o Confirmed(write_post("a", 1))
  \o <<Submit(write_delete("b"), "go"), Wait("head", None, "go"), Body("post", 1)>>

s9_pinning_immunity ==
  Confirmed(sys_install("A", Ancestor(1, "sys", "none")))
  \o Confirmed(sys_install("C", Child(1, 1, "fits"))) \o Confirmed(sys_install("D", Child(1, 0, "fits")))
  \o Amended(2, "nobody", "timeout")
  \o Updated("C", Child(2, 1, "fits"), "changed", "accepted") \o Updated("D", Child(2, 0, "fits"), "same", "flag")

s10_creation_pin_latest ==
  Confirmed(sys_install("A", Ancestor(1, "sys", "none"))) \o Amended(2, "sys", "fail")
  \o Rejected("C", Child(1, 1, "fits")) \o Accepted("D", Child(1, 2, "fits"))

s11_forward_only ==
  Confirmed(sys_install("A", Ancestor(1, "sys", "none"))) \o Amended(2, "sys", "fail")
  \o Confirmed(sys_install("C", Child(1, 2, "fits"))) \o Amended(3, "sys", "fail")
  \o Updated("C", Child(1, 3, "fits"), "changed", "accepted") \o Updated("C", Child(1, 2, "fits"), "same", "flag")

s12_descendant_constraint ==
  Confirmed(sys_install("A", Ancestor(1, "sys", "template")))
  \o Rejected("C", Child(1, 0, "exceeds")) \o Rejected("D", Child(1, 0, "lacks"))
  \o Accepted("E", Child(1, 0, "fits"))

s13_no_pin ==
  Confirmed(sys_install("A", Ancestor(1, "sys", "nopin")))
  \o Rejected("C", Child(1, 1, "fits")) \o Accepted("D", Child(1, 0, "fits"))

scenarios ==
  [S1 |-> s1_capture_fix, S2 |-> s2_non_member_denied, S3 |-> s3_member_can_post,
   S4 |-> s4_owner_only_update, S5 |-> s5_author_delete, S6 |-> s6_moderator_delete,
   S7 |-> s7_non_moderator_delete, S8 |-> <<>>, S9 |-> s9_pinning_immunity,
   S10 |-> s10_creation_pin_latest, S11 |-> s11_forward_only, S12 |-> s12_descendant_constraint,
   S13 |-> s13_no_pin]

ASSUME ChosenAssumption == Chosen \subseteq DOMAIN scenarios

NeedsSys == {"S9", "S10", "S11", "S12", "S13"}

Script == scenarios[scen.id]
Step == Script[line]
Writes(id) == {n \in DOMAIN scenarios[id] : scenarios[id][n].op = "submit"}

Policies == {"A", "C", "D", "E"}
Objects == Policies \cup {"post", "capture"}
           \cup {Membership[u] : u \in {"a", "b"}} \cup {Moderator[u] : u \in {"a", "b"}}

-----------------------------------------------------------------------------
(* The chain.                                                              *)

\* The sys key may govern a child: by the version of the ancestor it is pinned
\* to, by the latest one, or, without an ancestor, by the hub root.
SysGoverns(st, ar, obj) ==
  IF st[obj] # None /\ st[obj].pin # 0 THEN \E p \in ar : p.n = st[obj].pin /\ p.govern = "sys"
  ELSE st["A"] # None => st["A"].govern = "sys"

ChildAllowed(st, ar, w) ==
  LET a == st["A"] old == st[w.obj]
  IN /\ SysGoverns(st, ar, w.obj)
     /\ (w.act = "post" /\ a # None) =>
          /\ w.val.pin \in {0, a.n} \cup (IF old = None THEN {} ELSE {old.pin})
          /\ a.rule = "nopin" => w.val.pin = 0
          /\ a.rule = "template" => w.val.shape = "fits"

\* The rules of the hub and of an open community, and those of delegation.
Permits(st, ar, w) ==
  /\ w.act = "delete" => st[w.obj] # None
  /\ CASE w.obj = "capture" -> FALSE
       [] w.obj = "post" /\ w.act = "delete" -> st["post"].owner = w.by \/ st[Moderator[w.by]] # None
       [] w.obj = "post" /\ w.act # "delete" ->
            IF st["post"] = None THEN st[Membership[w.by]] # None ELSE st["post"].owner = w.by
       [] w.obj \in Policies \ {"A"} -> ChildAllowed(st, ar, w)
       [] OTHER -> TRUE

\* The write of an actor that the daemon can attribute.
Allowed(w) == (w.by # "sys" => attributed) /\ Permits(store, archive, w)

Judged(w, n) == IF n \in faults THEN ~Allowed(w) ELSE Allowed(w)

Shown(obj) == {n \in DOMAIN pending : pending[n].overlay = "kept" /\ pending[n].w.obj = obj}

\* GET /v1/object.
get_object(obj) ==
  IF Shown(obj) = {} THEN [value |-> store[obj], confirmed |-> store[obj] # None]
  ELSE LET w == pending[Max(Shown(obj))].w
       IN [value |-> IF w.act = "delete" THEN store[obj] ELSE w.val, confirmed |-> FALSE]

Apply(e) ==
  IF ~Judged(e.w, e.n) THEN UNCHANGED <<store, archive>>
  ELSE /\ store' = [store EXCEPT ![e.w.obj] = e.w.val]
       /\ archive' = IF e.w.obj = "A" /\ e.w.act = "post" THEN archive \cup {e.w.val} ELSE archive

\* The oldest write is replayed.
Replay ==
  /\ pending # <<>>
  /\ Apply(Head(pending))
  /\ pending' = Tail(pending)
  /\ UNCHANGED <<harness, attributed, faults, mishaps>>

Passed(s) == IF s.blocks < FinalityBlocks THEN [s EXCEPT !.blocks = @ + 1] ELSE s

\* The head advances once the writes of its block are replayed: a write is in one
\* of the next MaxDelay blocks.
Block ==
  /\ outcome = None
  /\ \A n \in DOMAIN pending : pending[n].age + 1 < MaxDelay
  /\ pending' = [n \in DOMAIN pending |-> [pending[n] EXCEPT !.age = @ + 1]]
  /\ sub' = Passed(sub)
  /\ <<pending', sub'>> # <<pending, sub>>
  /\ UNCHANGED <<scen, line, mark, good, outcome, policies, store, archive, attributed, faults, mishaps>>

\* The daemon loses its overlay; the oldest write, once, reaches no block; the
\* proof lapses.
Hide ==
  /\ outcome = None
  /\ \E n \in DOMAIN pending : pending[n].overlay = "kept"
  /\ pending' = [n \in DOMAIN pending |-> [pending[n] EXCEPT !.overlay = "lost"]]
  /\ mishaps' = mishaps \cup {"hidden"}
  /\ UNCHANGED <<harness, store, archive, attributed, faults>>

Drop ==
  /\ pending # <<>> /\ "dropped" \notin mishaps
  /\ pending' = Tail(pending)
  /\ mishaps' = mishaps \cup {"dropped"}
  /\ UNCHANGED <<harness, store, archive, attributed, faults>>

Lapse ==
  /\ attributed /\ scen.id \notin NeedsSys /\ outcome = None
  /\ attributed' = FALSE
  /\ mishaps' = mishaps \cup {"lapsed"}
  /\ UNCHANGED <<harness, store, archive, pending, faults>>

-----------------------------------------------------------------------------
(* The harness.                                                            *)

NoSub == [state |-> "none", blocks |-> 0]

LiveInit ==
  /\ scen \in [id : Chosen, sys : BOOLEAN, keep : BOOLEAN]
  /\ scen.id \notin NeedsSys => scen.sys /\ ~scen.keep
  /\ line = 1 /\ sub = NoSub /\ mark = None /\ good = TRUE /\ outcome = None /\ policies = <<>>
  /\ store = [o \in Objects |-> None] /\ archive = {} /\ pending = <<>> /\ attributed = TRUE
  /\ faults \in {F \in SUBSET Writes(scen.id) : Cardinality(F) <= MaxFaults}
  /\ mishaps = {}

Going == outcome = None /\ line \in DOMAIN Script /\ (scen.id \in NeedsSys => scen.sys)

\* The scenario returns, and its locals are gone.
End(result) == outcome' = result /\ line' = 1 /\ sub' = NoSub /\ mark' = None /\ good' = TRUE

Continue == line' = line + 1 /\ UNCHANGED outcome

\* S8 is not implemented; without the sys key S9 to S13 are skipped.
Skip ==
  /\ outcome = None /\ (scen.id = "S8" \/ (scen.id \in NeedsSys /\ ~scen.sys))
  /\ End("Skip")
  /\ UNCHANGED <<scen, policies, chain, mishaps>>

\* How far the head is past the base that submit takes: a failed read of it
\* counts as block 0.
head_block == {0, FinalityBlocks}

ReadHead ==
  /\ Going /\ Step.op = "submit" /\ sub.state # "read"
  /\ sub' \in {[state |-> "read", blocks |-> b] : b \in head_block}
  /\ UNCHANGED <<scen, line, mark, good, outcome, policies, chain, mishaps>>

Entry(w, n) == [w |-> w, n |-> n, age |-> 0, overlay |-> "kept"]

Recorded == IF Step.w.by = "sys" THEN Append(policies, Step.obj) ELSE policies

\* The POST: accepted, denied with 400, or no usable answer, in which case the
\* write may have been accepted all the same and sys_install records nothing.
Post ==
  /\ Going /\ Step.op = "submit" /\ sub.state = "read"
  /\ \/ /\ pending' = Append(pending, Entry(Step.w, line))
        /\ mishaps' = IF sub.blocks = 0 THEN mishaps ELSE mishaps \cup {"loose"}
        /\ policies' = Recorded
        /\ sub' = [sub EXCEPT !.state = "accepted"] /\ Continue /\ UNCHANGED <<mark, good>>
     \/ /\ ~Judged(Step.w, line)
        /\ policies' = Recorded
        /\ CASE Step.else = "go" -> sub' = [sub EXCEPT !.state = "denied"] /\ Continue /\ UNCHANGED <<mark, good>>
             [] Step.else = "fail" -> End("Fail")
             [] Step.else = "error" -> End("Error")
        /\ UNCHANGED <<pending, mishaps>>
     \/ /\ pending' \in {pending, Append(pending, Entry(Step.w, line))}
        /\ mishaps' = mishaps \cup {"unanswered"}
        /\ End("Error")
        /\ UNCHANGED policies
  /\ UNCHANGED <<scen, store, archive, attributed, faults>>

Read == get_object(Step.obj)

\* Mutant: a pending body counts.
settle_present_pending ==
  {"Error", IF Read.value = None THEN "Timeout"
            ELSE IF Step.want \in {None} \/ Read.value.body = Step.want THEN "Pass" ELSE "Fail"}

\* What each wait may return now: its condition, or the deadline, or an error.
settle_present ==
  {"Error", IF ~Read.confirmed THEN "Timeout"
            ELSE IF Step.want \in {None} \/ Read.value.body = Step.want THEN "Pass" ELSE "Fail"}

\* Mutant: absent is absent, whatever the head.
settle_absent_now ==
  {"Error"} \cup
  IF sub.state = "denied" THEN {IF Read.confirmed THEN "Fail" ELSE "Pass"}
  ELSE IF Read.confirmed THEN {"Fail"}
  ELSE {IF Read.value = None THEN "Pass" ELSE "Timeout"}

settle_absent ==
  {"Error"} \cup
  IF sub.state = "denied" THEN {IF Read.confirmed THEN "Fail" ELSE "Pass"}
  ELSE IF Read.confirmed THEN {"Fail"}
  ELSE {"Timeout"} \cup {r \in {"Pass"} : Read.value = None /\ sub.blocks >= FinalityBlocks}

wait_deleted ==
  IF sub.state = "denied" THEN {"Fail"} ELSE {"Error", IF Read.value = None THEN "Pass" ELSE "Timeout"}

wait_version_change == {"Error", IF Read.confirmed /\ Read.value # mark THEN "Pass" ELSE "Timeout"}

\* A denied write needs no wait; reads of the head that fail end in the deadline.
wait_for_head ==
  IF sub.state = "denied" THEN {"Pass"}
  ELSE {"Timeout"} \cup {r \in {"Pass"} : sub.blocks >= FinalityBlocks}

\* S9 and S11: the last update must be denied by /v1/submit and change nothing.
still_the_same == {"Error", IF sub.state = "denied" /\ Read.value = mark THEN "Pass" ELSE "Fail"}

Results ==
  IF Step.else = "accepted" /\ sub.state = "denied" THEN {"Fail"}
  ELSE CASE Step.op = "present" -> settle_present
         [] Step.op = "absent" -> settle_absent
         [] Step.op = "deleted" -> wait_deleted
         [] Step.op = "changed" -> wait_version_change
         [] Step.op = "head" -> wait_for_head
         [] Step.op = "same" -> still_the_same
         [] OTHER -> {"Pass", "Error"}

\* What a scenario makes of a result: the outcome it returns, or None to go on.
Returned(r) ==
  CASE Step.else = "return" -> r
    [] Step.else = "error" -> IF r = "Pass" THEN None ELSE "Error"
    [] Step.else = "timeout" -> IF r = "Timeout" THEN r ELSE None
    [] Step.else = "fail" -> IF r = "Timeout" THEN "Fail" ELSE None
    [] Step.op = "same" -> IF r = "Error" THEN r ELSE None
    [] OTHER -> None

Flagged(r) == Step.else \in {"flag", "accepted"} /\ r # "Pass"

Mishap(r) ==
  (IF Step.else \in {"flag", "accepted", "timeout", "fail"} /\ r \in {"Timeout", "Error"} THEN {"folded"} ELSE {})
  \cup (IF Step.else \in {"timeout", "fail"} /\ r = "Error" THEN {"swallowed"} ELSE {})
  \cup (IF Step.op = "head" /\ r = "Timeout" THEN {"loose"} ELSE {})
  \cup (IF Step.op = "same" /\ sub.state = "accepted" THEN {"lenient"} ELSE {})

Settle ==
  /\ Going /\ Step.op # "submit"
  /\ \E r \in Results :
       /\ mishaps' = mishaps \cup Mishap(r)
       /\ \/ Returned(r) # None /\ End(Returned(r))
          \/ /\ Returned(r) = None /\ Continue
             /\ good' = (good /\ ~Flagged(r))
             /\ mark' = IF Step.op = "hash" THEN Read.value ELSE mark
             /\ UNCHANGED sub
  /\ UNCHANGED <<scen, policies, chain>>

\* The end of a script that collects flags.
Verdict ==
  /\ outcome = None /\ Script # <<>> /\ line = Len(Script) + 1
  /\ End(IF good THEN "Pass" ELSE "Fail")
  /\ UNCHANGED <<scen, policies, chain, mishaps>>

InFlight(obj) == \E n \in DOMAIN pending : pending[n].w.obj = obj /\ pending[n].w.act = "post"

\* Mutant: the first refusal ends the sweep.
SweepStops ==
  /\ outcome # None /\ scen.sys /\ ~scen.keep /\ policies # <<>>
  /\ LET w == sys_delete_policy(Last(policies))
     IN \/ pending' = Append(pending, Entry(w, 0)) /\ UNCHANGED mishaps
        \/ /\ ~Judged(w, 0) /\ UNCHANGED pending
           /\ mishaps' = IF InFlight(w.obj) THEN mishaps \cup {"early"} ELSE mishaps
        \/ /\ "unanswered" \notin mishaps
           /\ pending' \in {pending, Append(pending, Entry(w, 0))}
           /\ mishaps' = mishaps \cup {"unanswered"}
  /\ policies' = IF pending' = pending THEN <<>> ELSE Front(policies)
  /\ UNCHANGED <<scen, line, sub, mark, good, outcome, store, archive, attributed, faults>>

\* cleanup: the policies in reverse order, each delete best effort and not awaited.
Sweep ==
  /\ outcome # None /\ scen.sys /\ ~scen.keep /\ policies # <<>>
  /\ LET w == sys_delete_policy(Last(policies))
     IN \/ pending' = Append(pending, Entry(w, 0)) /\ UNCHANGED mishaps
        \/ /\ ~Judged(w, 0) /\ UNCHANGED pending
           /\ mishaps' = IF InFlight(w.obj) THEN mishaps \cup {"early"} ELSE mishaps
        \/ /\ "unanswered" \notin mishaps
           /\ pending' \in {pending, Append(pending, Entry(w, 0))}
           /\ mishaps' = mishaps \cup {"unanswered"}
  /\ policies' = Front(policies)
  /\ UNCHANGED <<scen, line, sub, mark, good, outcome, store, archive, attributed, faults>>

Finished == outcome # None /\ (policies = <<>> \/ scen.keep \/ ~scen.sys)

LiveNext == \/ Skip \/ ReadHead \/ Post \/ Settle \/ Verdict \/ Sweep
        \/ Replay \/ Block \/ Hide \/ Drop \/ Lapse

LiveSpec == LiveInit /\ [][LiveNext]_LiveVars

-----------------------------------------------------------------------------
(* Properties.                                                             *)

LiveTypeOK ==
  /\ line \in 1 .. Len(Script) + 1
  /\ sub \in [state : {"none", "read", "accepted", "denied"}, blocks : 0 .. FinalityBlocks]
  /\ outcome \in {None, "Pass", "Fail", "Timeout", "Skip", "Error"}
  /\ policies \in Seq(Policies)
  /\ \A n \in DOMAIN pending : pending[n].age < MaxDelay

\* "report the weaker (but likely-correct) conclusion honestly rather than a
\* false PASS": a scenario passes only on an engine that judges every write of
\* it correctly, accepted or denied at submit, in whatever blocks they are
\* replayed.  An overlay that forgets a write does no harm as long as the head
\* was read right before the POST and waited for, and a head that was not does
\* none as long as the overlay remembers; losing both, or the write, or the
\* attribution of the actors, takes the verdict's worth, and so does an error
\* while waiting for an amendment, which S9 to S11 pass over.
NoFalsePass ==
  (outcome = "Pass" /\ ~({"loose", "hidden"} \subseteq mishaps) /\ {"dropped", "lapsed", "swallowed"} \cap mishaps = {})
    => faults = {}

\* "a broken precondition is a runner error, not a product FAIL": a scenario
\* fails only on an engine that misjudged a write, unless a deadline or an error
\* was folded into a flag or passed over (S9 to S13), or S9 or S11 took a write
\* that was disregarded on replay, and not denied at submit, for applied.
NoFalseFail ==
  (outcome = "Fail" /\ {"dropped", "lapsed", "folded", "lenient"} \cap mishaps = {}) => faults # {}

\* "Sys-owned policy objects (S9-S13) CAN be swept": when the sweep is over and
\* replayed every policy is gone, also those of scenarios that stopped half way,
\* except the child that tracks the ancestor of S9, which revoked the right, and
\* installs still in flight, whose deletion was denied, or never answered.  If the
\* error of a wait for an amendment was passed over the engine may have misjudged
\* one write but not two: the amendment and then a child pinned to it.
SweptUnlessRevoked ==
  (/\ Finished /\ scen.sys /\ ~scen.keep /\ pending = <<>>
   /\ {"dropped", "unanswered", "early"} \cap mishaps = {}
   /\ "swallowed" \in mishaps => Cardinality(faults) <= 1)
    => {o \in Policies : store[o] # None} \subseteq (IF scen.id = "S9" THEN {"D"} ELSE {})
=============================================================================
