---------------------------- MODULE MCProfileRun ----------------------------
(***************************************************************************)
(* ProfileRun for TLC: every plan of one or two steps from a set that      *)
(* holds each kind, requirement and preflight result, a plan of three, and *)
(* the combinations of target, provider and policy that the CLI, the web   *)
(* and the tests of the repository use.                                    *)
(***************************************************************************)
EXTENDS ProfileRun

Step(kind, policy, check) ==
  [kind |-> kind, policy |-> policy, check |-> check, touched |-> TRUE]

Untouched(s) == [s EXCEPT !.touched = FALSE]

StaticSteps ==
  {Step("static", "required", "ready"), Step("static", "fatal", "blocked"),
   Step("static", "optional", "none"), Step("static", "advisory", "blocked"),
   Step("static", "required", "not_applicable"),
   Untouched(Step("static", "required", "ready"))}

RuntimeSteps ==
  {Step("runtime", "fatal", "ready"), Step("schema", "required", "ready"),
   Step("runtime", "optional", "ready"), Step("schema", "advisory", "blocked")}

Uniform(j) ==
  \A a, b \in DOMAIN j.plan :
    requiresRuntimeTarget(j.plan[a]) /\ requiresRuntimeTarget(j.plan[b])
      => (failureFailsProfile(j, j.plan[a]) <=> failureFailsProfile(j, j.plan[b]))

PlansOf(steps) == {<<a>> : a \in steps} \cup {<<a, b>> : a, b \in steps}

Long == <<Step("runtime", "fatal", "ready"), Step("static", "required", "ready"),
          Step("runtime", "fatal", "ready")>>

\* Diff targets have static steps only
MCJobs ==
  LET request(p, strict, mode, go, tgt, prov, gate) ==
        [plan |-> p, strict |-> strict, mode |-> mode, continue |-> go, target |-> tgt,
         provider |-> prov, inputs |-> ~strict, web |-> go, gate |-> gate]
      Full == PlansOf(StaticSteps \cup RuntimeSteps) \cup {Long}
  IN  {j \in
         {request(p, FALSE, "enforced", TRUE, "full", "factory", "high") : p \in Full}
         \cup {request(p, TRUE, "shadow", FALSE, "full", "factory", "advisory") : p \in Full}
         \cup {request(p, FALSE, "shadow", FALSE, "bare", "injected", "missing") : p \in Full}
         \cup {request(p, FALSE, "shadow", TRUE, "full", "none", "low") : p \in PlansOf(RuntimeSteps)}
         \cup {request(p, FALSE, "enforced", TRUE, "diff", "none", "high") : p \in PlansOf(StaticSteps)} :
       Uniform(j)}

MCSeverities == {{}, {"low"}, {"high"}, {"unrated"}}
=============================================================================
