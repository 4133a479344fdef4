----------------------------- MODULE Household -----------------------------
(***************************************************************************)
(* The household's tools (hirz/mcp/household.py): calls retried under a    *)
(* request key, the first-plan requests a worker prepares (mcp/worker.py), *)
(* the warning checks a worker runs on reported requests                   *)
(* (protect/worker.py), the memory a member reviews (memory/service.py),   *)
(* and the signed audit chain they all append to (pipeline/audit.py) with  *)
(* its verification (audit/__init__.py).                                   *)
(*                                                                         *)
(* A tool call runs in one transaction under the household lock            *)
(* (GraphRepository.write), so it is one step; a worker's job is several.  *)
(* A request that is refused, or answered with a question, changes nothing *)
(* and is no step.  How the rules decide is Approvals' subject: here a     *)
(* decision is any of execute, ask and deny.  Row times and the payload of *)
(* audit rows are left out; SHA-256 is taken to be injective.              *)
(***************************************************************************)
EXTENDS Naturals, Sequences, FiniteSets

CONSTANTS
    Principals,      \* linked accounts, each on its surface
    Children,        \* the ones of children
    MaxKeys,         \* bound on request keys a principal uses
    Objectives,      \* planning priorities
    Settings,        \* the device settings of the household's profile
    Signals,         \* warning signs
    Members,         \* members who review memory
    Candidates,      \* what a memory proposal may ask the preference to be
    MaxCalls,        \* bound on tool calls that take effect, memory reviews and
                     \* changes of the facts
    MaxCases,        \* bound on verification cases
    MaxProposals,    \* bound on memory proposals
    MaxCrashes,      \* bound on worker crashes
    None             \* no value

(* A principal's keys, numbered in the order in which it first uses them. *)
Keys == 1 .. MaxKeys

(* A call's own effect, and those of the settings a profile expands into. *)
Parts == {"whole"} \cup Settings

Requests ==
    [tool : {"rule", "device", "profile", "constraint", "assess", "permission"}]
      \cup [tool : {"plan"}, objective : Objectives]
      \cup [tool : {"approve"}, of : Principals \X Keys, part : Parts, approved : BOOLEAN]
      \cup [tool : {"verify"}, case : 1 .. MaxCases]

(* Rows of tool_requests and of the other tables, and what workers hold. *)
Receipt == [request : Requests,
            answer : {"recorded", "execute", "ask", "deny", "preparing", "assessed", "checking"}]
Approval == [of : Principals \X Keys, part : Parts, expands : BOOLEAN]
Request == [objective : Objectives, status : {"pending", "ready", "failed"}]
Planned == [objective : Objectives, facts : Nat, over : Nat]
Preparation == [request : Nat, objective : Objectives, facts : Nat]
Case == [status : {"pending", "running", "complete", "fallback"},
         signals : SUBSET Signals, contacted : BOOLEAN]
Proposal == [member : Members, candidate : Candidates, base : Nat,
             status : {"pending", "accepted", "rejected"}]

(* The model answers with signs, or fails. *)
Answers == [status : {"complete"}, signals : SUBSET Signals]
             \cup [status : {"fallback"}, signals : {{}}]
Reading == [case : 1 .. MaxCases, found : Answers \cup {None}]

(* Rows of audit_log, with digests as Hash makes them. *)
Digest == Nat \X Nat \X SUBSET Nat
AuditRow == [seq : Nat, body : {"event", "altered"}, prev : Digest, curr : Digest,
             signature : Digest]

ASSUME ConstantsAssumption ==
    /\ Children \subseteq Principals /\ IsFiniteSet(Settings) /\ IsFiniteSet(Signals)
    /\ {MaxCalls, MaxCases, MaxProposals, MaxCrashes} \subseteq Nat
    /\ MaxKeys \in Nat /\ None \notin Principals \cup Objectives \cup Candidates \cup Nat
    /\ "whole" \notin Settings
    /\ None \notin Receipt /\ None \notin Planned /\ None \notin Preparation
    /\ None \notin Answers /\ None \notin Reading /\ None \notin AuditRow

VARIABLES
    receipts,     \* tool_requests, by principal and request key
    done,         \* how often each part of a call under that key took effect
    approvals,    \* asked for and not yet voted on: the call and part it is about
    requests,     \* plan_requests, oldest first
    plan,         \* the active plan, None when there is none
    facts,        \* version of the snapshot a plan is computed from
    preparer,     \* what the plan worker holds while it computes
    cases,        \* verification_cases
    extractor,    \* the case whose text the model is reading, and its answer
    inferences,   \* how often a case's text was given to the model
    proposals,    \* memory_proposals
    preference,   \* the versions of each member's preference, oldest first
    log,          \* audit_log
    pointer,      \* audit_pointer
    calls, crashes

ledger == <<receipts, done, approvals>>
planning == <<requests, plan, facts, preparer>>
protect == <<cases, extractor, inferences>>
memory == <<proposals, preference>>
audit == <<log, pointer>>
vars == <<receipts, done, approvals, requests, plan, facts, preparer, cases, extractor,
          inferences, proposals, preference, log, pointer, calls, crashes>>

ZERO == <<0, 0, {}>>

Init ==
    /\ receipts = [x \in Principals \X Keys |-> None]
    /\ done = [x \in Principals \X Keys |-> [part \in Parts |-> 0]]
    /\ approvals = {} /\ requests = <<>> /\ plan = None /\ facts = 0 /\ preparer = None
    /\ cases = <<>> /\ extractor = None /\ inferences = [c \in 1 .. MaxCases |-> 0]
    /\ proposals = <<>> /\ preference = [m \in Members |-> <<>>]
    /\ log = <<>> /\ pointer = [seq |-> 0, hash |-> ZERO]
    /\ calls = 0 /\ crashes = 0

TypeOK ==
    /\ receipts \in [Principals \X Keys -> Receipt \cup {None}]
    /\ done \in [Principals \X Keys -> [Parts -> Nat]]
    /\ approvals \subseteq Approval
    /\ requests \in Seq(Request) /\ plan \in Planned \cup {None} /\ facts \in Nat
    /\ preparer \in Preparation \cup {None}
    /\ cases \in Seq(Case) /\ Len(cases) <= MaxCases /\ extractor \in Reading \cup {None}
    /\ inferences \in [1 .. MaxCases -> Nat]
    /\ proposals \in Seq(Proposal) /\ preference \in [Members -> Seq(Candidates)]
    /\ log \in Seq(AuditRow) /\ pointer.seq = Len(log) /\ calls \in 0 .. MaxCalls /\ crashes \in 0 .. MaxCrashes

(***************************************************************************)
(* The audit chain                                                         *)
(***************************************************************************)

(* digest of an envelope: what the row says and, through the hash of the    *)
(* row before it, what all rows before it say.  Bodies being genuine or     *)
(* altered, the altered rows among them tell one prefix from another.       *)
Hash(seq, body, prev) ==
    <<seq, prev[1], IF body = "altered" THEN prev[3] \cup {seq} ELSE prev[3]>>

Row(seq, body, prev) ==
    [seq |-> seq, body |-> body, prev |-> prev, curr |-> Hash(seq, body, prev),
     signature |-> Hash(seq, body, prev)]

(* append_many: n rows from the pointer on, which must be the log's head.   *)
append_many(n) ==
    LET previous[i \in 0 .. n] == IF i = 0 THEN pointer.hash
                                  ELSE Hash(pointer.seq + i, "event", previous[i - 1])
    IN  /\ pointer = [seq |-> Len(log),
                      hash |-> IF log = <<>> THEN ZERO ELSE log[Len(log)].curr]
        /\ log' = log \o [i \in 1 .. n |-> Row(pointer.seq + i, "event", previous[i - 1])]
        /\ pointer' = [seq |-> pointer.seq + n, hash |-> previous[n]]

\* (mutant) the signature of a row is not checked.
feedUnsigned(row, last) ==
    /\ last # None => row.seq = last.seq + 1 /\ row.prev = last.curr
    /\ row.seq = 1 => row.prev = ZERO
    /\ row.curr = Hash(row.seq, row.body, row.prev)

(* Verification.feed: what a row must satisfy after the one before it. *)
feed(row, last) ==
    /\ last # None => row.seq = last.seq + 1 /\ row.prev = last.curr
    /\ row.seq = 1 => row.prev = ZERO
    /\ row.curr = Hash(row.seq, row.body, row.prev)
    /\ row.signature = row.curr          \* only the household's key signs a hash

Fed(rows) == \A i \in DOMAIN rows : feed(rows[i], IF i = 1 THEN None ELSE rows[i - 1])

(* verify_database: the whole chain from its genesis to the pointer. *)
verify_database(rows, at) ==
    /\ rows # <<>> => rows[1].seq = 1
    /\ Fed(rows)
    /\ at = [seq |-> Len(rows), hash |-> IF rows = <<>> THEN ZERO ELSE rows[Len(rows)].curr]

(* verify_file: an export is any run of rows, with its range beside it. *)
verify_file(rows) == Fed(rows)

(***************************************************************************)
(* Tool calls                                                              *)
(***************************************************************************)

(* Children may only propose a rule or pause the automation. *)
Admitted(p, r) == p \notin Children \/ r.tool = "rule"

(* A call that changes something, with the receipt of its answer and the   *)
(* audit rows of the decision and of the receipt.                          *)
\* (mutant) an answer that asks is not recorded.
RecordedEffective(p, k, r, answer) ==
    IF answer = "ask" THEN receipts
    ELSE [receipts EXCEPT ![<<p, k>>] = [request |-> r, answer |-> answer]]
Recorded(p, k, r, answer) ==
    [receipts EXCEPT ![<<p, k>>] = [request |-> r, answer |-> answer]]

call(p, k, r, answer) ==
    /\ calls < MaxCalls /\ Admitted(p, r)
    /\ receipts[<<p, k>>] = None /\ \A j \in 1 .. k - 1 : receipts[<<p, j>>] # None
    /\ calls' = calls + 1
    /\ receipts' = Recorded(p, k, r, answer)
    /\ append_many(2)
    /\ UNCHANGED <<preparer, extractor, inferences, memory, crashes>>

Effect(x) == done' = [done EXCEPT ![x]["whole"] = @ + 1]

(* propose_household_rule and pause_automation, alike here; and a           *)
(* permission preview, which only leaves its receipt.                       *)
Bookkeep(p, k, tool) ==
    /\ call(p, k, [tool |-> tool], "recorded")
    /\ IF tool = "permission" THEN UNCHANGED done ELSE Effect(<<p, k>>)
    /\ UNCHANGED <<approvals, requests, plan, facts, cases>>

(* A part of a call is decided.  A profile is granted as a whole, then each  *)
(* of its settings is decided by itself, some executed and some asked.      *)
Decided(a, decision, executed, asked, left) ==
    LET parts == IF decision = "execute" THEN {a.part} \cup executed ELSE {}
    IN  /\ (executed \cup asked # {}) => (decision = "execute" /\ a.expands)
        /\ executed \cap asked = {}
        /\ done' = [done EXCEPT ![a.of] = [q \in Parts |->
              IF q \in parts THEN @[q] + 1 ELSE @[q]]]
        /\ approvals' = left \cup (IF decision = "ask" THEN {a} ELSE {})
              \cup {[of |-> a.of, part |-> q, expands |-> FALSE] : q \in asked}

(* execute_household_action: executed, asked or denied.                   *)
Act(p, k, decision) ==
    /\ call(p, k, [tool |-> "device"], decision)
    /\ Decided([of |-> <<p, k>>, part |-> "whole", expands |-> FALSE], decision, {}, {}, approvals)
    /\ UNCHANGED <<requests, plan, facts, cases>>

(* apply_profile: the profile is decided, then its settings.               *)
Profile(p, k, decision, executed, asked) ==
    /\ call(p, k, [tool |-> "profile"], decision)
    /\ Decided([of |-> <<p, k>>, part |-> "whole", expands |-> TRUE],
               decision, executed, asked, approvals)
    /\ UNCHANGED <<requests, plan, facts, cases>>

(* approve: a vote on a pending approval; what was asked for runs in the    *)
(* same transaction, if the rules still allow it.  While others have yet to *)
(* vote, or when the facts have changed and a person is asked again, the    *)
(* part stays asked for.                                                    *)
Voted(a) == approvals \ {a}

Vote(p, k, a, approved, decision, executed, asked) ==
    /\ call(p, k, [tool |-> "approve", of |-> a.of, part |-> a.part, approved |-> approved],
            decision)
    /\ decision # "deny" => approved
    /\ Decided(a, decision, executed, asked, Voted(a))
    /\ UNCHANGED <<requests, plan, facts, cases>>

(* revise: a planning constraint is recorded or withdrawn, unless denied. *)
Revise(p, k, decision) ==
    /\ call(p, k, [tool |-> "constraint"], decision)
    /\ facts' = IF decision = "execute" THEN facts + 1 ELSE facts
    /\ IF decision = "execute" THEN Effect(<<p, k>>) ELSE UNCHANGED done
    /\ UNCHANGED <<approvals, requests, plan, cases>>

Pending(i) == i \in DOMAIN requests /\ requests[i].status = "pending"

(* plan: an active plan answers; a pending request is revised; otherwise a  *)
(* request is started.                                                      *)
Plan(p, k, objective) ==
    /\ call(p, k, [tool |-> "plan", objective |-> objective], "preparing")
    /\ IF plan # None THEN UNCHANGED requests
       ELSE IF Pending(Len(requests))
       THEN requests' = [requests EXCEPT ![Len(requests)].objective = objective]
       ELSE requests' = Append(requests, [objective |-> objective, status |-> "pending"])
    /\ IF requests' = requests THEN UNCHANGED done ELSE Effect(<<p, k>>)
    /\ UNCHANGED <<approvals, plan, facts, cases>>

(* assess: a case with the keywords found in the text, and its contact      *)
(* check once one is started.                                               *)
Assess(p, k, found) ==
    /\ Len(cases) < MaxCases
    /\ call(p, k, [tool |-> "assess"], "assessed")
    /\ cases' = Append(cases, [status |-> "pending", signals |-> found, contacted |-> FALSE])
    /\ Effect(<<p, k>>)
    /\ UNCHANGED <<approvals, requests, plan, facts>>

Verify(p, k, c) ==
    /\ ~cases[c].contacted
    /\ call(p, k, [tool |-> "verify", case |-> c], "checking")
    /\ cases' = [cases EXCEPT ![c].contacted = TRUE]
    /\ Effect(<<p, k>>)
    /\ UNCHANGED <<approvals, requests, plan, facts>>

(* Observations and profiles change the snapshot; plans end (see Plans). *)
Change ==
    /\ calls < MaxCalls /\ calls' = calls + 1
    /\ facts' = facts + 1 /\ append_many(1)
    /\ UNCHANGED <<ledger, requests, plan, preparer, protect, memory, crashes>>

PlanEnds ==
    /\ plan # None /\ plan' = None /\ append_many(1)
    /\ UNCHANGED <<ledger, requests, facts, preparer, protect, memory, calls, crashes>>

(***************************************************************************)
(* The plan worker: prepare_plans                                          *)
(***************************************************************************)

(* The request and the snapshot are read, then the plan is computed. *)
Prepare(i) ==
    /\ preparer = None /\ Pending(i)
    /\ preparer' = [request |-> i, objective |-> requests[i].objective, facts |-> facts]
    /\ UNCHANGED <<ledger, requests, plan, facts, protect, memory, audit, calls, crashes>>

CurrentRequest ==
    Pending(preparer.request) /\ requests[preparer.request].objective = preparer.objective

(* Both are read again: a request that moved on, or other facts, leave the  *)
(* computed plan unused, to be computed again.                              *)
Current == CurrentRequest /\ preparer.facts = facts

Finished(status) ==
    /\ requests' = [requests EXCEPT ![preparer.request].status = status]
    /\ append_many(2)
    /\ preparer' = None
    /\ UNCHANGED <<ledger, facts, protect, memory, calls, crashes>>

Publish ==
    /\ preparer # None /\ Current
    /\ Finished("ready")
    /\ plan' = [objective |-> preparer.objective, facts |-> preparer.facts, over |-> facts]

(* No feasible plan, or the rules refuse it. *)
Fail ==
    /\ preparer # None /\ CurrentRequest
    /\ Finished("failed") /\ UNCHANGED plan

Discard ==
    /\ preparer # None /\ ~Current
    /\ preparer' = None
    /\ UNCHANGED <<ledger, requests, plan, facts, protect, memory, audit, calls, crashes>>

(***************************************************************************)
(* The extraction worker: protect/worker.advance                           *)
(***************************************************************************)
\* (mutant) a case left running by a worker that died is not taken up again.
waitingPending(c) == cases[c].status = "pending"
waiting(c) == cases[c].status \in {"pending", "running"}
Oldest(c) == c \in DOMAIN cases /\ waiting(c) /\ \A d \in 1 .. c - 1 : ~waiting(d)

(* publish: signs only ever accumulate. *)
publish(c, status, found) ==
    [cases EXCEPT ![c].status = status, ![c].signals = @ \cup found]

(* First transaction.  A case found running was left by a worker that died, *)
(* and is not read a second time; nor is any while the model is disabled.   *)
Attempts(c) == IF cases[c].status = "running" THEN {"fallback"} ELSE {"running", "fallback"}

Extract(c, status) ==
    /\ extractor = None /\ Oldest(c) /\ status \in Attempts(c)
    /\ cases' = publish(c, status, {})
    /\ extractor' = IF status = "running" THEN [case |-> c, found |-> None] ELSE None
    /\ append_many(2)
    /\ UNCHANGED <<ledger, planning, inferences, memory, calls, crashes>>

Infer(found) ==
    /\ extractor # None /\ extractor.found = None
    /\ extractor' = [extractor EXCEPT !.found = found]
    /\ inferences' = [inferences EXCEPT ![extractor.case] = @ + 1]
    /\ UNCHANGED <<ledger, planning, cases, memory, audit, calls, crashes>>

(* Second transaction, on the case as it is now. *)
Extracted ==
    /\ extractor # None /\ extractor.found # None
    /\ cases' = publish(extractor.case, extractor.found.status, extractor.found.signals)
    /\ extractor' = None
    /\ append_many(2)
    /\ UNCHANGED <<ledger, planning, inferences, memory, calls, crashes>>

(***************************************************************************)
(* Memory                                                                  *)
(***************************************************************************)

(* The value of a version; before the first there is none. *)
ValueAt(m, version) == IF version = 0 THEN None ELSE preference[m][version]

(* GraphRepository.put: a value equal to the stored one writes no version. *)
put(m, value) ==
    preference' = IF value = ValueAt(m, Len(preference[m])) THEN preference
                  ELSE [preference EXCEPT ![m] = Append(@, value)]

(* propose: from a recorded turn, over the preference as it is now. *)
Propose(m, value) ==
    /\ Len(proposals) < MaxProposals
    /\ proposals' = Append(proposals, [member |-> m, candidate |-> value,
                                       base |-> Len(preference[m]), status |-> "pending"])
    /\ append_many(2)
    /\ UNCHANGED <<ledger, planning, protect, preference, calls, crashes>>

\* (mutant) the version that a proposal was made over is not compared.
AcceptableOverAny(i) == proposals[i].status = "pending"
Acceptable(i) == /\ proposals[i].status = "pending"
                 /\ proposals[i].base = Len(preference[proposals[i].member])

(* review: the subject member accepts, which puts the preference (and makes *)
(* the plans stale, see Plans), or rejects.  The proposal is accepted       *)
(* whether or not put wrote a version; only a version changes the snapshot. *)
Accept(i) ==
    /\ i \in DOMAIN proposals /\ Acceptable(i) /\ calls < MaxCalls
    /\ proposals' = [proposals EXCEPT ![i].status = "accepted"]
    /\ put(proposals[i].member, proposals[i].candidate)
    /\ facts' = IF preference' = preference THEN facts ELSE facts + 1
    /\ calls' = calls + 1 /\ append_many(2)
    /\ UNCHANGED <<ledger, requests, plan, preparer, protect, crashes>>

Reject(i) ==
    /\ i \in DOMAIN proposals /\ proposals[i].status = "pending" /\ calls < MaxCalls
    /\ proposals' = [proposals EXCEPT ![i].status = "rejected"]
    /\ calls' = calls + 1 /\ append_many(2)
    /\ UNCHANGED <<ledger, planning, protect, preference, crashes>>

(* A worker dies: its lock and what it computed are gone. *)
Crash ==
    /\ crashes < MaxCrashes /\ (preparer # None \/ extractor # None)
    /\ preparer' = None /\ extractor' = None /\ crashes' = crashes + 1
    /\ UNCHANGED <<ledger, requests, plan, facts, cases, inferences, memory, audit, calls>>

-----------------------------------------------------------------------------
Decisions == {"execute", "ask", "deny"}

Call == \E p \in Principals, k \in Keys :
    \/ \E tool \in {"rule", "permission"} : Bookkeep(p, k, tool)
    \/ \E d \in Decisions : Act(p, k, d)
    \/ \E d \in Decisions, x, y \in SUBSET Settings : Profile(p, k, d, x, y)
    \/ \E a \in approvals, yes \in BOOLEAN, d \in Decisions, x, y \in SUBSET Settings :
          Vote(p, k, a, yes, d, x, y)
    \/ \E d \in {"execute", "deny"} : Revise(p, k, d)
    \/ \E o \in Objectives : Plan(p, k, o)
    \/ \E found \in SUBSET Signals : Assess(p, k, found)
    \/ \E c \in DOMAIN cases : Verify(p, k, c)

Extraction == \/ \E c \in 1 .. MaxCases, status \in {"running", "fallback"} : Extract(c, status)
              \/ \E found \in Answers : Infer(found)
              \/ Extracted

Memory == \/ \E m \in Members, value \in Candidates : Propose(m, value)
          \/ \E i \in 1 .. MaxProposals : Accept(i) \/ Reject(i)

Preparing == (\E i \in DOMAIN requests : Prepare(i)) \/ Publish \/ Fail \/ Discard

Next == Call \/ Change \/ PlanEnds \/ Preparing \/ Extraction \/ Memory \/ Crash

(* The extraction worker polls every second and its model call times out. *)
Spec == Init /\ [][Next]_vars /\ WF_protect(Extraction)

-----------------------------------------------------------------------------
(* However often a call is sent under one key, and whichever way what it    *)
(* asked for is later approved, it takes effect at most once                *)
(* (household.py:186-215, 1187-1262).                                       *)
KeyOnce == \A x \in Principals \X Keys, q \in Parts : done[x][q] <= 1

(* The household has one plan request open at a time, and a plan never      *)
(* enters it that was computed for other facts or another priority than     *)
(* those of the moment it is recorded (mcp/worker.py:118-150).              *)
PlanIsCurrent ==
    /\ \A i, j \in DOMAIN requests : Pending(i) /\ Pending(j) => i = j
    /\ plan # None => plan.facts = plan.over /\ ~Pending(Len(requests))

(* A reported request is given to the model at most once, whatever crashes  *)
(* (protect/worker.py:70-95). *)
InferredOnce == \A c \in 1 .. MaxCases : inferences[c] <= 1

(* Every warning check comes to an end, with its text read once at most.    *)
ExtractionEnds ==
    /\ []InferredOnce
    /\ \A c \in 1 .. MaxCases :
          (c \in DOMAIN cases) ~> (c \in DOMAIN cases /\ ~(cases[c].status \in {"pending", "running"}))

(* An accepted proposal that asks for another value than that of the version *)
(* it was made over.                                                        *)
Changing(i) ==
    /\ proposals[i].status = "accepted"
    /\ proposals[i].candidate # ValueAt(proposals[i].member, proposals[i].base)

(* An accepted change of a preference is the very next version after the    *)
(* one its author saw, and the only change accepted over that version: of   *)
(* several proposals over one version, those accepted before the change ask *)
(* for what is stored already, and those reviewed after it are refused      *)
(* (memory/service.py:199-207, 289-319).                                    *)
NoLostPreference ==
    /\ \A i \in DOMAIN proposals : Changing(i) =>
          LET p == proposals[i] IN
          p.base < Len(preference[p.member]) /\ preference[p.member][p.base + 1] = p.candidate
    /\ \A i, j \in DOMAIN proposals :
          /\ Changing(i) /\ Changing(j)
          /\ proposals[i].member = proposals[j].member /\ proposals[i].base = proposals[j].base
          => i = j

(* Nothing is kept that was made from what has changed since: neither a     *)
(* computed plan nor an accepted change of a preference.                    *)
NothingStaleKept == PlanIsCurrent /\ NoLostPreference

(* The exports one could make of the log's last rows by dropping or         *)
(* repeating rows, and by rewriting one with its hash recomputed; nobody    *)
(* else can sign.                                                           *)
Altered(row) == {[row EXCEPT !.body = "altered"],
                 [row EXCEPT !.body = "altered", !.curr = Hash(row.seq, "altered", row.prev)]}
Documents ==
    LET last == {log[i] : i \in {j \in DOMAIN log : j > Len(log) - 2}}
        rows == last \cup UNION {Altered(r) : r \in last}
    IN  {<<>>} \cup {<<r>> : r \in rows} \cup {<<r, s>> : r \in rows, s \in rows}

(* The chain verifies after every transaction, and of all those documents   *)
(* exactly the unbroken runs of the log are accepted                        *)
(* (audit/__init__.py:136-175).                                             *)
ChainIsEvidence ==
    /\ verify_database(log, pointer)
    /\ \A d \in Documents :
          verify_file(d) <=> \E i \in 0 .. Len(log) - Len(d) : d = SubSeq(log, i + 1, i + Len(d))

=============================================================================
