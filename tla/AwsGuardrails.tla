---------------------------- MODULE AwsGuardrails ----------------------------
(***************************************************************************)
(* What AutoOps makes of the text Terraform prints for a plan: the counts  *)
(* it parses out of it, the reasons to block it, the warnings, the risk,   *)
(* and whether it may be applied. The text is abstracted to what the       *)
(* parsers look for in it.                                                 *)
(***************************************************************************)
EXTENDS Integers

CONSTANTS
  Production, \* the environments isProductionEnvironment knows
  Listed,     \* the account and the region are on their allowlists
  None        \* null

\* getAwsGuardrailConfig: the defaults.
MaxPlanAddCount   == 10
MaxPlanChangeCount == 20
MaxMonthlyCostUsd == 100
MaxFargateCpu     == 1024
MaxFargateMemory  == 2048
MaxDesiredCount   == 2

\* What a plan may name: the words the guardrails search for.
Mark == {"replace", "load-balancer", "iam", "security-group", "network", "nat",
         "high-impact", "log-group"}

\* A plan: what it does, whether its summary also says "to import", what it names, and the
\* sizes it shows.
PlanText(add, change, destroy, imports, marks, desired, cpu, memory) ==
  [add |-> add, change |-> change, destroy |-> destroy, imports |-> imports, marks |-> marks,
   desired |-> desired, cpu |-> cpu, memory |-> memory]

\* parseTerraformPlanCounts: the pattern wants the additions right after "Plan:", and a
\* summary it does not know counts as one that changes nothing.
Counts(text) ==
  IF text.imports THEN [add |-> 0, change |-> 0, destroy |-> 0]
  ELSE [add |-> text.add, change |-> text.change, destroy |-> text.destroy]

\* What Terraform itself makes of it: nothing is created, changed, destroyed or imported.
ChangesNothing(text) == ~text.imports /\ text.add = 0 /\ text.change = 0 /\ text.destroy = 0

Or(n, default) == IF n = None THEN default ELSE n

\* estimateMonthlyCostDelta in units of 1/1024000 dollar.
MonthlyCost(text) ==
  Or(text.desired, 1) * 73 * (400 * Or(text.cpu, 512) + 45 * Or(text.memory, 1024))
  + 1024000 * ((IF "load-balancer" \in text.marks THEN 18 ELSE 0)
             + (IF "nat" \in text.marks THEN 32 ELSE 0)
             + (IF "log-group" \in text.marks THEN 3 ELSE 0))

\* A limit a number in the text may exceed; no number exceeds none.
Exceeds(n, limit) == n # None /\ n > limit

BlockedReasons(text, counts) ==
  {r \in {"DISALLOWED_ACCOUNT_OR_REGION"} : ~Listed}
  \cup {r \in {"DESTROY_DETECTED"} : counts.destroy > 0}
  \cup {r \in {"ADD_COUNT_LIMIT"} : counts.add > MaxPlanAddCount}
  \cup {r \in {"CHANGE_COUNT_LIMIT"} : counts.change > MaxPlanChangeCount}
  \cup {r \in {"PUBLIC_LOAD_BALANCER_BLOCKED"} : "load-balancer" \in text.marks}
  \cup {r \in {"DESIRED_COUNT_LIMIT"} : Exceeds(text.desired, MaxDesiredCount)}
  \cup {r \in {"FARGATE_CPU_LIMIT"} : Exceeds(text.cpu, MaxFargateCpu)}
  \cup {r \in {"FARGATE_MEMORY_LIMIT"} : Exceeds(text.memory, MaxFargateMemory)}
  \cup {r \in {"MONTHLY_COST_LIMIT"} : MonthlyCost(text) >= 1024000 * MaxMonthlyCostUsd + 5120}

\* A NAT gateway is found by the words of the network as well.
Warnings(text, env) ==
  (text.marks \cap {"replace", "iam", "security-group", "network", "nat", "high-impact"})
  \cup {w \in {"PRODUCTION_ENVIRONMENT"} : env \in Production}

RiskLevel(text, env) ==
  IF BlockedReasons(text, Counts(text)) # {} THEN "BLOCKED"
  ELSE IF Warnings(text, env) # {} \/ Counts(text).change > 0 THEN "HIGH"
  ELSE IF Counts(text).add > 0 THEN "MEDIUM" ELSE "LOW"

\* summarizeTerraformPlanSafety and evaluateAwsGuardrails agree on what is eligible.
ApplyEligible(text) == Counts(text).destroy = 0 /\ BlockedReasons(text, Counts(text)) = {}
=============================================================================
