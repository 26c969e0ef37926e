--------------------------- MODULE CompiledKernel ---------------------------
(* kernel/compiled and pipeline-hooks/runtime: a registry is compiled into    *)
(* slot tables once, then every event of a wired source runs over the tables. *)
EXTENDS KernelRegistry

CONSTANTS Registries, Verdicts, MAX_JUMP_DEPTH

VARIABLES reg,          \* the KernelRegistry the process was assembled with
          kernel,       \* CompiledPipelineSet: state none, refused, panic or ready
          run,          \* the run under way; rest holds the hook slots still to call
          written       \* history: the metadata keys written to this event so far

vars == <<reg, kernel, run, written>>

NoRun == [current |-> "none", jumps |-> 0, rest |-> <<>>, trace |-> <<>>, out |-> [tag |-> "idle"]]

Init == reg \in Registries /\ kernel = [state |-> "none"] /\ run = NoRun /\ written = {}

(* CompiledPipelineSet::compile, from PipelineRuntime::new. *)
compile ==
    /\ kernel.state = "none"
    /\ kernel' = from_registry(reg)
    /\ UNCHANGED <<reg, run, written>>

Ends(r, out) == [r EXCEPT !.out = out, !.rest = <<>>]

Fails(r, error) == Ends(r, [tag |-> "err", what |-> error])

(* Enter the pipeline r.current: the depth guard first, then the slot lookup. *)
enter(r) ==
    IF r.jumps > MAX_JUMP_DEPTH THEN Fails(r, "JumpDepthExceeded")
    ELSE IF r.current \notin ToSet(kernel.pipeline_ids) THEN Fails(r, "UnknownPipeline")
    ELSE LET slots == kernel.compiled_pipelines[SlotOf(kernel.pipeline_ids, r.current)]
         IN  IF slots = <<>> THEN Fails(r, "FellOffEnd") ELSE [r EXCEPT !.rest = slots]

(* Mutant: a jump falls through to the hooks that follow it. *)
step_onFallsThrough(r, verdict) ==
    CASE verdict.op \in {"Continue", "Jump"} ->
            IF Len(r.rest) = 1 THEN Fails(r, "FellOffEnd") ELSE [r EXCEPT !.rest = Tail(@)]
      [] OTHER -> Ends(r, [tag |-> "ok", verdict |-> verdict])

step_on(r, verdict) ==
    CASE verdict.op = "Continue" ->
            IF Len(r.rest) = 1 THEN Fails(r, "FellOffEnd") ELSE [r EXCEPT !.rest = Tail(@)]
      [] verdict.op = "Jump" -> enter([r EXCEPT !.current = verdict.target, !.jumps = @ + 1])
      [] OTHER -> Ends(r, [tag |-> "ok", verdict |-> verdict])

(* One turn of the hook loop of CompiledKernel::run_pipeline. *)
run_hook(r, hook, verdict) ==
    CASE verdict.op = "Accept" /\ verdict.sink \notin hook.may_accept_to ->
            Fails(r, "UndeclaredAcceptTarget")
      [] verdict.op = "Jump" /\ verdict.target \notin hook.may_jump_to ->
            Fails(r, "UndeclaredJumpTarget")
      [] OTHER -> step_on([r EXCEPT !.trace = Append(@, <<hook.id, verdict.op>>)], verdict)

NextHook == kernel.compiled_hooks[Head(run.rest)]

(* run_pipeline_event for an event of a source; find takes its first wiring.  *)
run_pipeline_event(source) ==
    /\ kernel.state = "ready" /\ run.out.tag # "running"
    /\ \E i \in DOMAIN reg.wirings :
          /\ reg.wirings[i].source = source /\ \A j \in 1 .. i - 1 : reg.wirings[j].source # source
          /\ run' = enter([NoRun EXCEPT !.current = reg.wirings[i].pipeline,
                                        !.out = [tag |-> "running"]])
    /\ written' = reg.sources[source].initial_writes
    /\ UNCHANGED <<reg, kernel>>

Hook(verdict) ==
    /\ kernel.state = "ready" /\ run.out.tag = "running"
    /\ run' = run_hook(run, NextHook, verdict)
    /\ written' = written \cup reg.hooks[NextHook.id].writes
    /\ UNCHANGED <<reg, kernel>>

Next == \/ compile
        \/ \E source \in DOMAIN reg.sources : run_pipeline_event(source)
        \/ \E verdict \in Verdicts : Hook(verdict)

Spec == Init /\ [][Next]_vars

-----------------------------------------------------------------------------

(* The compiled walk, read back through its slot tables. *)
AsInterpreted ==
    [at |-> run.current, jumps |-> run.jumps, trace |-> run.trace, out |-> run.out,
     pos |-> IF run.out.tag = "running"
             THEN Len(reg.pipelines[run.current].hooks) - Len(run.rest) + 1 ELSE 0]

Interpreter == INSTANCE PipelineRun WITH run <- AsInterpreted

(* Every run over the compiled tables is a run of                             *)
(* run_pipeline_with_registry on the same registry: the same hooks in the     *)
(* same order, the same jump-depth guard, the same answer or error, the same  *)
(* hook trace (compiled.rs says "byte-for-byte").                             *)
CompiledImplements == Interpreter!Spec

(* What verify rules out never happens at run time: no unknown hook or        *)
(* pipeline, no endless jumping (a chain longer than the depth limit needs    *)
(* more pipelines than the limit), and an answer Accept only for a sink that  *)
(* exists.                                                                    *)
VerifiedRunsClean ==
    /\ run.out.tag = "err" =>
          \/ run.out.what \in {"FellOffEnd", "UndeclaredAcceptTarget", "UndeclaredJumpTarget"}
          \/ run.out.what = "JumpDepthExceeded" /\ Cardinality(DOMAIN reg.pipelines) > MAX_JUMP_DEPTH + 1
    /\ run.out.tag = "ok" /\ run.out.verdict.op = "Accept" => run.out.verdict.sink \in DOMAIN reg.sinks

(* A pipeline that events enter in one way only: from one source, or by       *)
(* jumps alone.                                                               *)
OneWayIn(pid) ==
    LET sources == {i \in DOMAIN reg.wirings : reg.wirings[i].pipeline = pid}
        jumped == \E p \in DOMAIN reg.pipelines : pid \in JumpTargets(reg, p)
    IN  IF jumped THEN sources = {} ELSE Cardinality(sources) <= 1

(* Whenever a hook of such a pipeline is about to run, every key it reads has *)
(* been written, by the source or by a hook before it.  (With two sources, or *)
(* a source and a jump, the check takes the writes of all of them together,   *)
(* so the restriction is needed.)                                             *)
ReadsAreWritten ==
    (run.out.tag = "running" /\ OneWayIn(run.current)) =>
        reg.hooks[NextHook.id].reads \subseteq written

(* Compiling a registry that verify accepts panics only over a hook that no   *)
(* pipeline runs and that has no function.                                    *)
PanicIsIdleHook ==
    kernel.state = "panic" =>
        \E h \in DOMAIN reg.hooks \ reg.fns : \A p \in DOMAIN reg.pipelines : h \notin HooksOf(reg, p)

=============================================================================
