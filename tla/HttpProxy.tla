------------------------------ MODULE HttpProxy ------------------------------
(***************************************************************************)
(* The two callers of stream_chat(), on top of the backend's stream        *)
(* (module BackendStream): a session of the agent loop, which may be       *)
(* cancelled, and a request to POST /v1/chat/completions, answered by      *)
(* chat_completions() of main.py, which passes no cancel_event.            *)
(*                                                                         *)
(* A streamed reply sends a chunk for each fragment, then a chunk that     *)
(* says "stop" or an error, then [DONE].  A reply that is not streamed is  *)
(* one JSON value: here its text, fragment by fragment, and its            *)
(* finish_reason, or the error of status 502.                              *)
(***************************************************************************)
EXTENDS BackendStream

VARIABLES
    caller,     \* a session, or a request whose reply is streamed or sent whole
    reply,      \* what chat_completions() does next, or how it ended
    sent        \* what the client was sent

proxyVars == <<vars, caller, reply, sent>>

Stop == <<"finish_reason", "stop">>
ErrorChunk == <<"error", "server_error">>
DoneChunk == <<"[DONE]", "">>

ProxyInit ==
    /\ Init
    /\ caller \in {"session", "streamed", "whole"}
    /\ reply = IF caller = "session" THEN "none" ELSE "relaying"
    /\ sent = <<>>

Streamed == caller = "streamed"

(* A session takes the fragments one by one, and may be cancelled meanwhile.*)
SessionStep ==
    /\ caller = "session"
    /\ BackendStep \/ Cancel
    /\ UNCHANGED <<caller, reply, sent>>

(* The next of stream_chat(); a fragment it yields is sent as "content".    *)
Relay ==
    /\ reply = "relaying"
    /\ BackendStep
    /\ sent' = IF Streamed THEN sent \o SubSeq(out', Len(out) + 1, Len(out')) ELSE sent
    /\ UNCHANGED <<caller, reply>>

(* stream_chat() has returned: finish_reason "stop". *)
Complete ==
    /\ reply = "relaying"
    /\ mode = "returned"
    /\ sent' = Append(IF Streamed THEN sent ELSE out, Stop)
    /\ reply' = IF Streamed THEN "closing" ELSE "over"
    /\ UNCHANGED <<vars, caller>>

(* Defect: an error of a stream that has begun is not answered. *)
Fail_FirstOnly ==
    /\ reply = "relaying"
    /\ mode = "failed"
    /\ sent = <<>>
    /\ sent' = Append(sent, ErrorChunk)
    /\ reply' = IF Streamed THEN "closing" ELSE "over"
    /\ UNCHANGED <<vars, caller>>

(* stream_chat() has raised, whatever the exception. *)
Fail ==
    /\ reply = "relaying"
    /\ mode = "failed"
    /\ sent' = Append(sent, ErrorChunk)
    /\ reply' = IF Streamed THEN "closing" ELSE "over"
    /\ UNCHANGED <<vars, caller>>

(* Defect: [DONE] is sent after a whole answer only. *)
SendDone_NotAfterError ==
    /\ reply = "closing"
    /\ sent' = IF ErrorChunk = Last(sent) THEN sent ELSE Append(sent, DoneChunk)
    /\ reply' = "over"
    /\ UNCHANGED <<vars, caller>>

SendDone ==
    /\ reply = "closing"
    /\ sent' = Append(sent, DoneChunk)
    /\ reply' = "over"
    /\ UNCHANGED <<vars, caller>>

(* The client leaves: the task that sends a streamed reply is cancelled,    *)
(* which `except Exception` does not catch.  One that is not streamed goes  *)
(* on.                                                                      *)
ClientLeaves ==
    /\ Streamed
    /\ reply \in {"relaying", "closing"}
    /\ reply' = "gone"
    /\ UNCHANGED <<vars, caller, sent>>

ProxyStep == Relay \/ Complete \/ Fail \/ SendDone

Answered ==
    /\ reply \in {"over", "gone"} \/ (caller = "session" /\ Over)
    /\ UNCHANGED proxyVars

ProxyNext == SessionStep \/ ProxyStep \/ ClientLeaves \/ Answered

ProxySpec == ProxyInit /\ [][ProxyNext]_proxyVars

(* The backend sends its next chunk, or the read timeout ends the wait.     *)
FairProxySpec == ProxySpec /\ WF_proxyVars(ProxyStep)

-----------------------------------------------------------------------------
(* The tail of a reply: one outcome, and [DONE] after it if streamed.       *)
ProxyTypeOK ==
    /\ TypeOK
    /\ cancelled => caller = "session"
    /\ reply = "none" <=> caller = "session"
    /\ reply \in {"none", "relaying", "closing", "over", "gone"}
    /\ reply = "closing" => Streamed /\ Last(sent) \in {Stop, ErrorChunk}
    /\ reply = "relaying" => sent = IF Streamed THEN out ELSE <<>>

(* A reply holds fragments of the backend's answer, each once and in order, *)
(* and behind them nothing, or one outcome: "stop", and then the fragments  *)
(* are the whole answer (but for a last event without its blank line), or   *)
(* an error.  A reply that has ended has its outcome, and a streamed one    *)
(* ends in [DONE] whatever that is, so that a client that waits for it does *)
(* not hang.                                                                *)
OutcomeIsTrue ==
    \E n \in 0..Len(sent), outcome \in {Stop, ErrorChunk} :
        LET fragments == SubSeq(sent, 1, n)
            tail == SubSeq(sent, n + 1, Len(sent)) IN
        /\ IsPrefix(fragments, Said(Len(answer)))
        /\ tail \in {<<>>, <<outcome>>, <<outcome, DoneChunk>>}
        /\ tail # <<>> /\ outcome = Stop => fragments = Said(EventsEnded)
        /\ reply = "over" => tail = IF Streamed THEN <<outcome, DoneChunk>> ELSE <<outcome>>

(* Every request is answered, or its client leaves.                         *)
RequestEnds == <>(reply \in {"none", "over", "gone"})
===============================================================================
