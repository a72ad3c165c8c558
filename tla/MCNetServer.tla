---------------------------- MODULE MCNetServer ----------------------------
(* One request of each kind handle_request and on_read tell apart, with    *)
(* and without keep-alive where the connection survives the answer.        *)
EXTENDS NetServer

Request(up, m, t, f, k) ==
  [upgrade |-> up, method |-> m, legalTarget |-> t, file |-> f, keepAlive |-> k]

MCRequests ==
  { Request(FALSE, "get", TRUE, "found", TRUE),
    Request(FALSE, "head", TRUE, "absent", FALSE),
    Request(FALSE, "other", TRUE, "absent", TRUE),
    Request(FALSE, "get", TRUE, "error", FALSE),
    Request(TRUE, "get", TRUE, "found", TRUE) }
==============================================================================
