----------------------------- MODULE PipelineRun -----------------------------
(* kernel/pipeline: run_pipeline_with_registry, which walks a registry by id. *)
(* What a hook answers is an input: any verdict, declared or not.             *)
EXTENDS Integers, Sequences

CONSTANTS Registries,       \* the registries a process may be started with
          Verdicts,         \* what a hook function may return
          MAX_JUMP_DEPTH

VARIABLES reg, run

Idle == [at |-> "none", jumps |-> 0, pos |-> 0, trace |-> <<>>, out |-> [tag |-> "idle"]]

Ends(r, out) == [r EXCEPT !.out = out, !.pos = 0]

Fails(r, error) == Ends(r, [tag |-> "err", what |-> error])

(* The head of the loop, and the end of the hook list: what becomes of a run  *)
(* that is about to look for its next hook.                                   *)
settle(r) ==
    CASE r.jumps > MAX_JUMP_DEPTH -> Fails(r, "JumpDepthExceeded")
      [] r.jumps <= MAX_JUMP_DEPTH /\ r.at \notin DOMAIN reg.pipelines -> Fails(r, "UnknownPipeline")
      [] OTHER -> IF r.pos > Len(reg.pipelines[r.at].hooks) THEN Fails(r, "FellOffEnd") ELSE r

(* run_pipeline: a Continue goes on, a Jump starts over at its target, any    *)
(* other verdict is the answer.                                               *)
advance(r, verdict) ==
    CASE verdict.op = "Continue" -> settle([r EXCEPT !.pos = @ + 1])
      [] verdict.op = "Jump" ->
            settle([r EXCEPT !.at = verdict.target, !.jumps = @ + 1, !.pos = 1])
      [] OTHER -> Ends(r, [tag |-> "ok", verdict |-> verdict])

(* The closure of run_pipeline_with_registry: the declared targets are        *)
(* checked before the verdict is recorded.                                    *)
call_hook(r, hook, verdict) ==
    CASE hook \notin DOMAIN reg.hooks \cap reg.fns -> Fails(r, "UnknownHook")
      [] hook \in DOMAIN reg.hooks \cap reg.fns /\ verdict.op = "Accept"
            /\ verdict.sink \notin reg.hooks[hook].may_accept_to -> Fails(r, "UndeclaredAcceptTarget")
      [] hook \in DOMAIN reg.hooks \cap reg.fns /\ verdict.op = "Jump"
            /\ verdict.target \notin reg.hooks[hook].may_jump_to -> Fails(r, "UndeclaredJumpTarget")
      [] OTHER -> advance([r EXCEPT !.trace = Append(@, <<hook, verdict.op>>)], verdict)

Init == reg \in Registries /\ run = Idle

(* A run starts when no other one is under way. *)
Start(pid) ==
    /\ run.out.tag # "running"
    /\ run' = settle([Idle EXCEPT !.at = pid, !.pos = 1, !.out = [tag |-> "running"]])
    /\ UNCHANGED reg

Hook(verdict) ==
    /\ run.out.tag = "running"
    /\ run' = call_hook(run, reg.pipelines[run.at].hooks[run.pos], verdict)
    /\ UNCHANGED reg

Next == \/ \E i \in DOMAIN reg.wirings : Start(reg.wirings[i].pipeline)
        \/ \E verdict \in Verdicts : Hook(verdict)

Spec == Init /\ [][Next]_<<reg, run>>

=============================================================================
