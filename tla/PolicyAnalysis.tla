---------------------------- MODULE PolicyAnalysis ----------------------------
(***************************************************************************)
(* The symbolic commands of the Cedar Lean CLI (cedar-lean-cli/src): the   *)
(* analysis of a policy set and the comparison of two (analysis.rs), and   *)
(* the checks of one property (symcc.rs). Each asks Lean, request          *)
(* environment by request environment, whether one policy or policy set    *)
(* covers another, and turns the answers into findings.                    *)
(*                                                                         *)
(* A policy is its effect and the requests it matches in each environment. *)
(* Lean answers exactly, or with an error (the solver does not know, or    *)
(* fails), and the first error ends the command before it prints.          *)
(***************************************************************************)
EXTENDS Integers, FiniteSets

CONSTANTS
    Requests,  \* the requests of a request environment
    Matches,   \* the sets of requests a policy may match
    Sizes      \* the instances: a number of policies and one of environments

ASSUME AnalysisConstants ==
    /\ Requests # {} /\ Matches \subseteq SUBSET Requests
    /\ Sizes \subseteq (Nat \ {0}) \X Nat

Effects  == {"permit", "forbid"}
Commands == {"analyze", "compare", "check"}

VARIABLES
    command,     \* the command
    asked,       \* the environments its arguments leave: all of them for --any
    effect,      \* the effect of each policy
    matched,     \* the requests each policy (or policy set, for a comparison) matches, per environment
    stage,       \* what the command does next
    turn,        \* the policy, the pair of policies or the environment it is at
    vacuity,     \* policy_vacuity_results
    policyset,   \* policyset_vacuity_results
    redundant,   \* redundant_findings
    shadowed,    \* permit_shadowed_by_permit_findings and forbid_shadowed_by_forbid_findings
    overridden,  \* permit_overriden_by_forbid_findings
    equivalents, \* what is left of equiv_results in the environment at hand
    classes,     \* equiv_classes, per environment
    results      \* the results of a comparison or a check, per environment

analysisVars == <<command, asked, effect, matched, stage, turn, vacuity, policyset, redundant,
                  shadowed, overridden, equivalents, classes, results>>
given    == <<command, asked, effect, matched>>
findings == <<redundant, shadowed, overridden>>

Policies == DOMAIN effect
\* For 0 environments the schema has no action that applies to anything.
Envs == DOMAIN matched

NoFindings(P, E) == [p \in P |-> [e \in E |-> {}]]

AnalysisInit ==
    \E size \in Sizes :
      LET P == 1..size[1]
          E == 1..size[2]
      IN  /\ command \in {c \in Commands : c # "analyze" => size[1] = IF c = "compare" THEN 2 ELSE 1}
          /\ asked \in IF command = "check" THEN SUBSET E ELSE {E}
          /\ effect \in [P -> IF command = "analyze" THEN Effects ELSE {"permit"}]
          /\ matched \in [E -> [P -> Matches]]
          /\ stage = "begin"
          /\ turn = <<1, 2>>
          /\ vacuity = [p \in P |-> [e \in E |-> "none"]]
          /\ policyset = [e \in E |-> "none"]
          /\ redundant = NoFindings(P, E)
          /\ shadowed = NoFindings(P, E)
          /\ overridden = NoFindings(P, E)
          /\ equivalents = {}
          /\ classes = [e \in E |-> {}]
          /\ results = <<>>

-----------------------------------------------------------------------------
(* What Lean is asked. *)

\* run_check_implies on two sets of one permit each, run_check_matches_implies on two policies
Implies(p, q, e) == matched[e][p] \subseteq matched[e][q]

\* The requests the policy set allows.
Allowed(e) ==
    {r \in Requests : /\ \E p \in Policies : effect[p] = "permit" /\ r \in matched[e][p]
                      /\ \A p \in Policies : effect[p] = "forbid" => r \notin matched[e][p]}

\* Any call may come back with an error, which every caller passes on with ?.
Fail(calls) ==
    /\ calls
    /\ stage' = "failed"
    /\ UNCHANGED <<given, turn, vacuity, policyset, findings, equivalents, classes, results>>

-----------------------------------------------------------------------------
(* analyze_policyset *)

\* policy_vacuous and policyset_vacuous ask for "always" first, then for "never".
Vacuity(S) == IF S = Requests THEN "all" ELSE IF S = {} THEN "none" ELSE "some"

\* vacuous_finding_from_results
Overall(vs) ==
    IF \A e \in DOMAIN vs : vs[e] = "all" THEN "all"
    ELSE IF \A e \in DOMAIN vs : vs[e] = "none" THEN "none" ELSE "some"

\* OpenRequestEnv::to_request_envs: it is an error to name a part of an environment and
\* match none; without arguments there may be none.
BeginAnalysis ==
    /\ stage = "begin"
    /\ stage' = IF command = "check" /\ asked = {} THEN "failed"
                ELSE IF command = "analyze" THEN "vacuity" ELSE "verdicts"
    /\ turn' = <<1, 2>>
    /\ UNCHANGED <<given, vacuity, policyset, findings, equivalents, classes, results>>

AskVacuity ==
    /\ stage = "vacuity"
    /\ \/ LET p == turn[1] IN
          /\ vacuity' = [vacuity EXCEPT ![p] = [e \in Envs |-> Vacuity(matched[e][p])]]
          /\ IF p + 1 \in Policies
             THEN turn' = <<p + 1, p + 2>> /\ UNCHANGED <<stage, policyset>>
             ELSE /\ policyset' = [e \in Envs |-> Vacuity(Allowed(e))]
                  /\ turn' = <<1, 2>>
                  /\ stage' = "pairs"
          /\ UNCHANGED <<given, findings, equivalents, classes, results>>
       \/ Fail(Envs # {})

\* Mutation of Shadowing: the two strict cases that Lean decides are swapped.
ShadowingSwapped(v1, v2, implies12, implies21) ==
    IF "none" \in {v1, v2} THEN "none"
    ELSE IF v1 = "all" /\ v2 = "all" THEN "equivalent"
    ELSE IF v1 = "all" THEN "1 shadows 2"
    ELSE IF v2 = "all" THEN "2 shadows 1"
    ELSE IF implies12 /\ implies21 THEN "equivalent"
    ELSE IF implies12 THEN "1 shadows 2"
    ELSE IF implies21 THEN "2 shadows 1" ELSE "none"

\* The table of compute_permit_shadowing_result and compute_forbid_shadowing_result.
Shadowing(v1, v2, implies12, implies21) ==
    IF "none" \in {v1, v2} THEN "none"
    ELSE IF v1 = "all" /\ v2 = "all" THEN "equivalent"
    ELSE IF v1 = "all" THEN "1 shadows 2"
    ELSE IF v2 = "all" THEN "2 shadows 1"
    ELSE IF implies12 /\ implies21 THEN "equivalent"
    ELSE IF implies12 THEN "2 shadows 1"
    ELSE IF implies21 THEN "1 shadows 2" ELSE "none"

\* Lean is asked about two policies only where neither is vacuous.
Undecided(p, q) == {e \in Envs : vacuity[p][e] = "some" /\ vacuity[q][e] = "some"}

\* The environments where the pair of turn has this shadowing result.
Having(p, q, result) ==
    {e \in Envs : Shadowing(vacuity[p][e], vacuity[q][e], Implies(p, q, e), Implies(q, p, e)) = result}

\* compute_forbid_overrides_shadow_result
Overrides(f, p) == {e \in Undecided(f, p) : Implies(p, f, e)}

\* update_findings: q is found for p in the environments of E.
UpdateFindings(fs, p, q, E) ==
    [fs EXCEPT ![p] = [e \in Envs |-> IF e \in E THEN @[e] \cup {q} ELSE @[e]]]

\* Mutation of NextPair: the first of the pair never moves on.
NextPairStuck == IF turn[2] + 1 \in Policies THEN <<turn[1], turn[2] + 1>> ELSE <<turn[1], turn[1] + 1>>

\* array_combinations: every pair once, in order.
NextPair == IF turn[2] + 1 \in Policies THEN <<turn[1], turn[2] + 1>> ELSE <<turn[1] + 1, turn[1] + 2>>

\* Two policies of one effect: each direction is looked for, and redundancy both ways.
SameEffect(p, q) ==
    /\ effect[p] = effect[q]
    /\ redundant' = UpdateFindings(UpdateFindings(redundant, p, q, Having(p, q, "equivalent")),
                                   q, p, Having(p, q, "equivalent"))
    /\ shadowed' = UpdateFindings(UpdateFindings(shadowed, p, q, Having(p, q, "2 shadows 1")),
                                  q, p, Having(p, q, "1 shadows 2"))
    /\ UNCHANGED overridden

\* A permit and a forbid, in either order.
OtherEffect(p, q) ==
    /\ effect[p] # effect[q]
    /\ overridden' = IF effect[p] = "permit" THEN UpdateFindings(overridden, p, q, Overrides(q, p))
                                             ELSE UpdateFindings(overridden, q, p, Overrides(p, q))
    /\ UNCHANGED <<redundant, shadowed>>

ComparePair ==
    /\ stage = "pairs" /\ turn[2] \in Policies
    /\ \/ /\ SameEffect(turn[1], turn[2]) \/ OtherEffect(turn[1], turn[2])
          /\ turn' = NextPair
          /\ UNCHANGED <<given, stage, vacuity, policyset, equivalents, classes, results>>
       \/ Fail(Undecided(turn[1], turn[2]) # {})

PairsDone ==
    /\ stage = "pairs" /\ turn[2] \notin Policies
    /\ stage' = IF Envs = {} THEN "printed" ELSE "classes"
    /\ turn' = <<1, 2>>
    /\ equivalents' = Policies
    /\ UNCHANGED <<given, vacuity, policyset, findings, classes, results>>

ClassOf(p, e) == redundant[p][e] \cup {p}

\* PerSigFindings::new takes any key out of the map, and the keys of its class with it.
TakeClass ==
    /\ stage = "classes" /\ equivalents # {}
    /\ \E p \in equivalents :
          LET e == turn[1]
              class == ClassOf(p, e)
          IN  /\ equivalents' = equivalents \ (class \cup {p})
              /\ classes' = IF Cardinality(class) >= 2 THEN [classes EXCEPT ![e] = @ \cup {class}]
                                                      ELSE classes
    /\ UNCHANGED <<given, stage, turn, vacuity, policyset, findings, results>>

NextSignature ==
    /\ stage = "classes" /\ equivalents = {}
    /\ IF turn[1] + 1 \in Envs
       THEN turn' = <<turn[1] + 1, turn[1] + 2>> /\ equivalents' = Policies /\ UNCHANGED stage
       ELSE stage' = "printed" /\ UNCHANGED <<turn, equivalents>>
    /\ UNCHANGED <<given, vacuity, policyset, findings, classes, results>>

-----------------------------------------------------------------------------
(* compare_policysets and the run_check commands *)

\* `more` is the counterexample to "the first implies the second", if any.
Status(more, less) ==
    IF more = {} /\ less = {} THEN "equivalent"
    ELSE IF more = {} THEN "less permissive"
    ELSE IF less = {} THEN "more permissive" ELSE "incomparable"

\* A counterexample to "p implies q" is a request p allows and q does not: Lean gives any.
Counterexamples(p, q, e) ==
    IF Implies(p, q, e) THEN {{}} ELSE {{r} : r \in matched[e][p] \ matched[e][q]}

\* The environments are taken in order.
NextEnv == CHOOSE e \in asked \ DOMAIN results : \A d \in asked \ DOMAIN results : e <= d

With(e, result) == [d \in DOMAIN results \cup {e} |-> IF d = e THEN result ELSE results[d]]

AskVerdict ==
    /\ stage = "verdicts" /\ asked \ DOMAIN results # {}
    /\ LET e == NextEnv IN
       \/ /\ command = "compare"
          /\ \E more \in Counterexamples(1, 2, e), less \in Counterexamples(2, 1, e) :
                results' = With(e, <<Status(more, less), more, less>>)
          /\ UNCHANGED <<given, stage, turn, vacuity, policyset, findings, equivalents, classes>>
       \/ /\ command = "check"
          /\ results' = With(e, matched[e][1] = Requests)
          /\ UNCHANGED <<given, stage, turn, vacuity, policyset, findings, equivalents, classes>>
       \/ Fail(TRUE)

PrintVerdicts ==
    /\ stage = "verdicts" /\ asked \subseteq DOMAIN results
    /\ stage' = "printed"
    /\ UNCHANGED <<given, turn, vacuity, policyset, findings, equivalents, classes, results>>

AnalysisNext ==
    \/ BeginAnalysis \/ AskVacuity \/ ComparePair \/ PairsDone \/ TakeClass \/ NextSignature
    \/ AskVerdict \/ PrintVerdicts

AnalysisSpec == AnalysisInit /\ [][AnalysisNext]_analysisVars

-----------------------------------------------------------------------------
(* Properties *)

AnalysisTypes ==
    /\ command \in Commands /\ asked \subseteq Envs
    /\ effect \in [Policies -> Effects]
    /\ stage \in {"begin", "vacuity", "pairs", "classes", "verdicts", "printed", "failed"}
    /\ vacuity \in [Policies -> [Envs -> {"all", "some", "none"}]]
    /\ policyset \in [Envs -> {"all", "some", "none"}]
    /\ \A fs \in {redundant, shadowed, overridden} : fs \in [Policies -> [Envs -> SUBSET Policies]]
    /\ equivalents \subseteq Policies
    /\ classes \in [Envs -> SUBSET SUBSET Policies]
    /\ DOMAIN results \subseteq asked

(* The findings as cedar-lean-cli/README.md:137-141 defines them, of one environment. *)

\* "every policy within the set are equivalent (allows the same set of authorization requests)"
Redundant(p, q, e) == effect[p] = effect[q] /\ matched[e][p] = matched[e][q]

\* "every request allowed by `policy1` is allowed by `policy2` and [they] are not redundant", and
\* of two forbids the same of the requests they deny.
ShadowedBy(p, q, e) ==
    effect[p] = effect[q] /\ matched[e][p] \subseteq matched[e][q] /\ ~Redundant(p, q, e)

\* "every request allowed by `policy1` is denied by `policy2`"
OverriddenBy(p, q, e) ==
    effect[p] = "permit" /\ effect[q] = "forbid" /\ matched[e][p] \subseteq matched[e][q]

\* "it applies to all requests (allows all) or [...] it applies to no requests (allows none)":
\* the README says it of a policy, the analysis asks it of a policy in one environment.
AlwaysApplies(p, e) == matched[e][p] = Requests
NeverApplies(p, e)  == matched[e][p] = {}

\* The policies redundant with p, and p.
SameAs(p, e) == {q \in Policies : Redundant(p, q, e)}

\* What is reported vacuous is what applies to all requests of all environments, or to none of
\* any; where there is no environment at all, everything is said to apply to all requests.
VacuousExact ==
    /\ Overall(policyset) = "all" <=> \A e \in Envs : Allowed(e) = Requests
    /\ Overall(policyset) = "none" <=> Envs # {} /\ \A e \in Envs : Allowed(e) = {}
    /\ \A p \in Policies :
          /\ Overall(vacuity[p]) = "all" <=> \A e \in Envs : AlwaysApplies(p, e)
          /\ Overall(vacuity[p]) = "none" <=> Envs # {} /\ \A e \in Envs : NeverApplies(p, e)

\* A printed analysis gives exactly the findings of the README, whatever the order of the
\* policies and of the keys of the map, and also where the vacuity of a policy decided without
\* Lean - with two exceptions, which the README does not make. A policy that never applies in an
\* environment is left out of every finding of it. And a forbid that always applies overrides
\* nothing: OverrideResult (analysis.rs:613) documents both for the overriding, ShadowingResult
\* (analysis.rs:533-542) sets aside every vacuous policy where the code keeps those that always
\* apply.
FindingsExact ==
    stage = "printed" /\ command = "analyze" =>
        /\ VacuousExact
        /\ \A e \in Envs :
            /\ \A p, q \in Policies :
                  /\ q \in shadowed[p][e] <=> ShadowedBy(p, q, e) /\ ~NeverApplies(p, e)
                  /\ q \in overridden[p][e] <=>
                        OverriddenBy(p, q, e) /\ ~NeverApplies(p, e) /\ ~AlwaysApplies(q, e)
            /\ classes[e] = {C \in {SameAs(p, e) : p \in {o \in Policies : ~NeverApplies(o, e)}} :
                                Cardinality(C) >= 2}

\* cedar-lean-cli/README.md:140: "A permit policy `policy1` is overriden by a forbid policy
\* `policy2` if every request allowed by `policy1` is denied by `policy2`". A permit that applies
\* somewhere and is overridden is found so, or one of the two policies is reported vacuous. The
\* code gives neither for a forbid that always applies in this environment but not in another
\* one: within the environment it is vacuous and overrides nothing (analysis.rs:632), over all of
\* them it is not vacuous (lines 278-282).
OverridesReported ==
    stage = "printed" /\ command = "analyze" =>
        \A e \in Envs, p, q \in Policies :
            OverriddenBy(p, q, e) /\ ~NeverApplies(p, e) =>
                q \in overridden[p][e] \/ \E o \in {p, q} : Overall(vacuity[o]) # "some"

\* What a comparison or a check prints is true of every environment it was asked about, none
\* is left out, and the example of a difference shows the difference it is printed for.
VerdictsExact ==
    stage = "printed" /\ command # "analyze" =>
        /\ DOMAIN results = asked
        /\ \A e \in asked :
              LET a == matched[e][1] IN
              IF command = "check" THEN results[e] = (a = Requests)
              ELSE LET b == matched[e][2] IN
                   /\ results[e][1] \in {"equivalent", "less permissive"} <=> a \subseteq b
                   /\ results[e][1] \in {"equivalent", "more permissive"} <=> b \subseteq a
                   /\ results[e][2] \subseteq a \ b /\ results[e][3] \subseteq b \ a

\* What the symbolic commands print is true, whatever was asked of them.
AnalysisExact == FindingsExact /\ VerdictsExact
=============================================================================
