----------------------------- MODULE IconClient -----------------------------
(* The requests of chain/icon/client: what an answer of a node, or none, is to *)
(* the callers.                                                                *)
EXTENDS Integers, Sequences

\* The codes of JSON-RPC errors that callers tell apart; the ones of system errors
\* are the codes in their messages.
NodeCodes == {"TxPoolOverflow", "Pending", "Executing", "NotFound", "Duplicate", "Expired", "Future", "PoolFull", "other"}

\* An HTTP exchange: it is refused or fails otherwise, or gives a status and a body.
\* A "json" body is an answer of the node: a result (code "") or an error.
Exchange(http, body, code) == [http |-> http, body |-> body, code |-> code]
Exchanges ==
  {Exchange("refused", "none", ""), Exchange("fail", "none", "")}
    \cup [http : {"ok", "error"}, body : {"json"}, code : NodeCodes \cup {""}]
    \cup [http : {"ok", "error"}, body : {"none", "text", "broken"}, code : {""}]

Err(kind, code) == [kind |-> kind, code |-> code]
OK == Err("", "")

\* jsonrpc.Client.Do.  The error of a JSON body with an error status is taken over
\* even when there is none: it is then an *Error that is nil, but not a nil error.
Do(x) ==
  CASE x.http \in {"refused", "fail"} -> Err(x.http, "")
    [] x.http = "error" /\ x.body \in {"none", "text"} -> Err("http", "")
    [] x.http = "error" /\ x.body = "json" /\ x.code = "" -> Err("nil", "")
    [] (x.http = "ok" /\ x.body # "json") \/ (x.http = "error" /\ x.body = "broken") -> Err("decode", "")
    [] OTHER -> IF x.code = "" THEN OK ELSE Err("rpc", x.code)

\* A caller that looks into an *Error that is nil panics.
Panics(e) == e.kind = "nil"

\* What callers make of the other errors; none has an error code of common/errors.
MapError(e) ==
  CASE e.kind = "rpc" /\ e.code \in {"TxPoolOverflow", "PoolFull"} -> Err("SendFailByOverflow", "")
    [] e.kind = "rpc" /\ e.code = "Expired" -> Err("SendFailByExpired", "")
    [] e.kind = "rpc" /\ e.code = "Future" -> Err("SendFailByFuture", "")
    [] e.kind = "rpc" /\ e.code \in {"Pending", "Executing"} -> Err("GetResultFailByPending", "")
    [] e.kind \in {"http", "refused"} -> Err("ConnectFail", "")
    [] OTHER -> e
=============================================================================
