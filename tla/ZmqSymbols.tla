----------------------------- MODULE ZmqSymbols -----------------------------
(***************************************************************************)
(* The names of the libzmq exports that SDK/C/src/zmq_dynload.c resolves.  *)
(***************************************************************************)

\* The loader refuses an image in which one of these is missing.
RequiredSymbols ==
    {"zmq_ctx_new", "zmq_ctx_term", "zmq_ctx_shutdown", "zmq_ctx_set",
     "zmq_ctx_get", "zmq_socket", "zmq_close", "zmq_bind", "zmq_unbind",
     "zmq_connect", "zmq_disconnect", "zmq_send", "zmq_recv", "zmq_errno",
     "zmq_strerror", "zmq_version", "zmq_has", "zmq_setsockopt",
     "zmq_getsockopt"}

\* Older builds of libzmq may lack these; their pointers then stay NULL.
OptionalSymbols ==
    {"zmq_curve_keypair", "zmq_curve_public", "zmq_z85_encode",
     "zmq_z85_decode"}

Symbols == RequiredSymbols \cup OptionalSymbols

=============================================================================
