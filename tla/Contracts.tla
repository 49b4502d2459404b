----------------------------- MODULE Contracts -----------------------------
(***************************************************************************)
(* What the contracts and tools packages fix for both runtimes: the states *)
(* of a run and of a tool call, the transitions between them, and the      *)
(* tools each skill allows.                                                *)
(***************************************************************************)

SkillNames == {"calculator_assistant", "communication_assistant", "report_assistant"}

\* What the skill lets the model call: "sync" stands for the tools the worker
\* executes itself (calculator.evaluate, notification.preview).
AllowedTools ==
    [skill \in SkillNames |->
        CASE skill = "calculator_assistant"    -> {"sync"}
          [] skill = "communication_assistant" -> {"sync", "email"}
          [] OTHER                             -> {"report"}]

\* No production path enters waiting_for_user.
Terminal == {"completed", "failed"}
Waiting == {"waiting_for_tool", "waiting_for_admin"}
Statuses == {"queued", "running"} \cup Waiting \cup Terminal

CallStatuses == {"none", "completed", "failed", "approval_required", "running",
                 "rejected", "waiting_job"}
ApprovalStatuses == {"none", "pending", "approved", "rejected", "expired"}

\* runTransitions
RunTransitions ==
    ({"queued"} \X {"running", "failed"})
    \cup ({"running"} \X (Waiting \cup Terminal))
    \cup (Waiting \X {"running", "failed"})

\* toolCallTransitions; "none" stands for a call that is not in the ledger yet,
\* and "prepared", which no handler stores, is passed over on the way in.
ToolCallTransitions ==
    ({"none"} \X (CallStatuses \ {"none", "running"}))
    \cup ({"running"} \X {"waiting_job", "completed", "failed"})
    \cup ({"approval_required"} \X {"running", "rejected", "failed"})
    \cup ({"waiting_job"} \X {"completed", "failed"})

\* approvalTransitions and jobTransitions; no handler stores a failed job.
ApprovalTransitions ==
    {<<"none", "pending">>} \cup ({"pending"} \X {"approved", "rejected", "expired"})
JobTransitions ==
    {<<"none", "queued">>, <<"queued", "running">>}
    \cup ({"queued", "running"} \X {"completed"})
=============================================================================
