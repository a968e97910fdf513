--------------------------------- MODULE Audit ---------------------------------
(***************************************************************************)
(* "openhawk verify": the claims of a session are read from its log, or    *)
(* come from the claimcheck command, and a report on them is stored.  The  *)
(* fallback reads the log twice, in two statements, and actions are        *)
(* recorded and cleaned up meanwhile.  SessionLog is about how a step gets *)
(* its number; here a step is added by one action.                         *)
(***************************************************************************)
EXTENDS Naturals, Sequences, FiniteSets

CONSTANTS
    Verifiers,
    ActionTypes,     \* "api_call", "command_exec" and others
    Fields,          \* fields of a payload: "resource", "path", "url", "command"
    Checks,          \* results claimcheck may give to a claim
    MaxActions,      \* bound: actions of the session
    MaxReports,      \* bound: reports
    None

VARIABLES
    session_actions,       \* the log: type, and the fields its payload has
    op,                    \* verifier -> what it has read
    verification_reports,  \* how many reports are stored, and the last one, with what it was made of
    cleaned                \* history: verifiers during whose run rows were removed

vars == <<session_actions, op, verification_reports, cleaned>>

Idle == [pc |-> "idle", claims |-> <<>>]
Init ==
    /\ session_actions = <<>> /\ op = [v \in Verifiers |-> Idle]
    /\ verification_reports = [count |-> 0, last |-> None] /\ cleaned = {}

--------------------------------------------------------------------------------
(* A resource is the action that stated it: payloads name their own resource, the
   same in all of their fields; one without a field that is looked at has none. *)
Keys(type) ==
    CASE type = "api_call" -> {"url", "resource"}
      [] type = "command_exec" -> {"command", "resource"}
      [] OTHER -> {"path", "resource"}

extract_resource(type, fields) == fields \cap Keys(type) # {}

Claim(a) == [action_type |-> a.type, resource |-> IF extract_resource(a.type, a.fields) THEN a ELSE None]

(* Mutant: urls are forgotten. *)
action_matches_resource_NoUrl(a, resource) ==
    /\ a.fields \cap {"resource", "path", "command"} # {}
    /\ resource = a

action_matches_resource(a, resource) ==
    /\ a.fields \cap {"resource", "path", "url", "command"} # {}
    /\ resource = a

verify_claim(claim, evidence) ==
    IF evidence = <<>> THEN "Inconclusive"
    ELSE IF \E i \in DOMAIN evidence :
               evidence[i].type = claim.action_type /\ action_matches_resource(evidence[i], claim.resource)
         THEN "Pass" ELSE "Fail"

derive_status(verdicts) ==
    CASE "Fail" \in verdicts -> "Unverified"
      [] verdicts = {"Pass"} -> "Verified"
      [] OTHER -> "Inconclusive"

--------------------------------------------------------------------------------
(* load_claims_from_session: without claims the command says so and ends. *)
LoadClaims(v) ==
    /\ op[v] = Idle
    /\ op' = [op EXCEPT ![v] = [pc |-> "claimed", claims |-> [i \in DOMAIN session_actions |-> Claim(session_actions[i])]]]
    /\ cleaned' = cleaned \ {v}
    /\ session_actions # <<>>
    /\ UNCHANGED <<session_actions, verification_reports>>

store_report_full(claims, verdicts, status, raced, agrees) ==
    verification_reports' =
        [count |-> verification_reports.count + 1,
         last |-> [own |-> claims # <<>>, unstated |-> \E i \in DOMAIN claims : claims[i].resource = None,
                   verdicts |-> verdicts, status |-> status, raced |-> raced, agrees |-> agrees]]

(* verify_session: load_actions, the verdicts, and the report. *)
VerifySession(v) ==
    /\ op[v].pc = "claimed" /\ verification_reports.count < MaxReports
    /\ LET verdicts == {verify_claim(op[v].claims[i], session_actions) : i \in DOMAIN op[v].claims}
       IN  store_report_full(op[v].claims, verdicts, derive_status(verdicts), v \in cleaned, TRUE)
    /\ op' = [op EXCEPT ![v] = Idle]
    /\ UNCHANGED <<session_actions, cleaned>>

(* run_claimcheck, external: an error, or the results of any number of claims and,
   beside them, a summary that counts those that passed and those that failed. *)
Verdict == [c \in Checks |-> CASE c = "PASS" -> "Pass" [] c = "FAIL" -> "Fail" [] OTHER -> "Inconclusive"]
Summaries == [pass : {0, 1}, fail : {0, 1}]
Agrees(summary, results) ==
    (summary.pass > 0 <=> "PASS" \in results) /\ (summary.fail > 0 <=> "FAIL" \in results)

(* Mutant: one claim that passes is enough. *)
summary_status_Passed(summary) ==
    IF summary.pass > 0 THEN "Verified"
    ELSE IF summary.fail > 0 THEN "Unverified" ELSE "Inconclusive"

summary_status(summary) ==
    IF summary.fail > 0 THEN "Unverified"
    ELSE IF summary.pass > 0 THEN "Verified" ELSE "Inconclusive"

(* The status is that of the summary, the verdicts are those of the claims. *)
VerifyWithClaimcheck(v) ==
    /\ op[v] = Idle /\ verification_reports.count < MaxReports
    /\ \E results \in SUBSET Checks, summary \in Summaries :
          store_report_full(<<>>, {Verdict[r] : r \in results}, summary_status(summary), FALSE,
                            Agrees(summary, results))
    /\ UNCHANGED <<session_actions, op, cleaned>>

(* A recorder adds an action; a clean-up removes the oldest ones. *)
Record(type, fields) ==
    /\ Len(session_actions) < MaxActions
    /\ session_actions' = Append(session_actions, [type |-> type, fields |-> fields])
    /\ UNCHANGED <<op, verification_reports, cleaned>>

Cleanup(n) ==
    /\ session_actions' = SubSeq(session_actions, n + 1, Len(session_actions))
    /\ cleaned' = cleaned \cup {v \in Verifiers : op[v] # Idle}
    /\ UNCHANGED <<op, verification_reports>>

Next ==
    \/ \E v \in Verifiers : LoadClaims(v) \/ VerifySession(v) \/ VerifyWithClaimcheck(v)
    \/ \E t \in ActionTypes, f \in SUBSET Fields : Record(t, f)
    \/ \E n \in 1..Len(session_actions) : Cleanup(n)
Spec == Init /\ [][Next]_vars

--------------------------------------------------------------------------------
(* A session passes its own check, whatever is recorded meanwhile: a report that
   is not "Verified" has a claim without a resource, which no action matches, or
   its actions were cleaned up between the two reads. *)
OwnClaims ==
    LET r == verification_reports.last
    IN  r # None /\ r.own /\ r.status # "Verified" => r.raced \/ r.unstated

(* No report is better than its claims: the fallback's is "Verified" when all of
   them passed, and claimcheck's, which takes the status from the summary and not
   from the claims beside it, when some passed and none failed, provided that the
   summary agrees with the claims. *)
StatusHonest ==
    LET r == verification_reports.last
    IN  r # None /\ r.status = "Verified" =>
            /\ r.own => r.verdicts = {"Pass"}
            /\ r.agrees => "Pass" \in r.verdicts /\ "Fail" \notin r.verdicts

(* A verification blames an agent for its own claims only, and sums them up as
   they are. *)
AuditSound == OwnClaims /\ StatusHonest
================================================================================
