---------------------------- MODULE IngressPolicy ----------------------------
(* How an ingress turns a routing decision into a bus session request.  The  *)
(* rule policy speaks in actions (action_apply.rs), the event pipeline in     *)
(* verdicts and event metadata (verdict_apply.rs, one copy per ingress        *)
(* crate).  Both are projected onto the same three request fields.            *)
EXTENDS Integers, Sequences, SequencesExt

Absent == "absent"
NoK == -1               \* transport.schedule_fanout_k is None

(* BusSessionRequest::stream / ::datagram before any decision is applied. *)
BaseRequest == [route_group |-> Absent, schedule_hint |-> "Auto", k |-> 0, target_sink |-> Absent]

(* What open_stream and open_datagram accept.  An ingress leaves the flow and *)
(* return semantics of the base request alone, so only the hint can fail.     *)
validate_stream_request(request) == request.schedule_hint \notin {"FanOut", "Stripe"}

validate_datagram_request(request) ==
    ~(request.schedule_hint = "FanOut" /\ request.k = 0) /\ request.schedule_hint # "Stripe"

Allow(request) == [outcome |-> "Allow", request |-> request]
Refuse(outcome) == [outcome |-> outcome, request |-> BaseRequest]

map_schedule_hint(hint, request) ==
    [request EXCEPT !.schedule_hint = hint.label, !.k = hint.k]

RECURSIVE apply_one(_, _)

apply_one(action, request) ==
    CASE action.op = "Allow" -> Allow(request)
      [] action.op = "SetRouteGroup" -> Allow([request EXCEPT !.route_group = action.arg])
      [] action.op = "SetScheduleHint" -> Allow(map_schedule_hint(action.arg, request))
      [] action.op = "Compose" ->
            FoldLeft(LAMBDA acc, inner :
                        IF acc.outcome = "Deny" THEN acc ELSE apply_one(inner, acc.request),
                     Allow(request), action.actions)
      [] OTHER -> Refuse("Deny")

(* Startup refuses a chain whose actions the projection would silently deny. *)
RECURSIVE validate_projectable_action(_)
validate_projectable_action(action) ==
    \/ action.op \in {"Allow", "Deny", "SetRouteGroup", "SetScheduleHint"}
    \/ action.op = "Compose" /\ \A i \in 1 .. Len(action.actions) :
                                    validate_projectable_action(action.actions[i])

(* The schedule label and route group the pipeline wrote onto the event.      *)
(* Stripe is downgraded to Auto; FanOut without k is an error.                *)
project(base, meta) ==
    LET grouped == IF meta.group = Absent THEN base ELSE [base EXCEPT !.route_group = meta.group]
    IN  CASE meta.label = Absent -> Allow(grouped)
          [] meta.label = "Ordered" -> Allow([grouped EXCEPT !.schedule_hint = "SinglePath"])
          [] meta.label = "Stripe" -> Allow([grouped EXCEPT !.schedule_hint = "Auto"])
          [] meta.label = "FanOut" /\ meta.k # NoK ->
                Allow([grouped EXCEPT !.schedule_hint = "FanOut", !.k = meta.k])
          [] OTHER -> Refuse("Deny")

apply_verdict(verdict, meta, base) ==
    CASE verdict.op = "Accept" ->
            LET out == project(base, meta)
            IN  IF out.outcome = "Allow"
                THEN [out EXCEPT !.request.target_sink = verdict.sink] ELSE out
      [] verdict.op = "Drop" -> Refuse("Drop")
      [] OTHER -> Refuse("Deny")

(* The HTTP, TCP and UDP ingress crates hold copies of the two functions. *)
http_apply_verdict(verdict, meta, base) == apply_verdict(verdict, meta, base)
tcp_apply_verdict(verdict, meta, base) == apply_verdict(verdict, meta, base)
udp_apply_verdict(verdict, meta, base) == apply_verdict(verdict, meta, base)

=============================================================================
