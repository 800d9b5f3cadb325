---------------------------- MODULE EtworkErrors ----------------------------
(***************************************************************************)
(* What lib/errors.cpp makes of an error: what it is called and whom it is *)
(* told to.  The functions that report errors all end in one call of       *)
(* IErrorNotify::onSocketError(), or in a line for the debugger; they      *)
(* differ in whom they blame.  An error is its ErrorOption; its area, its  *)
(* severity and its text are left out.                                     *)
(***************************************************************************)
\* GetWsaError(): the options for the error codes of the system.
WsaOptions ==
  [EO_already_in_use |-> {"WSAEACCES", "WSAEADDRINUSE"},
   EO_invalid_parameters |->
     {"WSAEFAULT", "WSAEINVAL", "WSAEALREADY", "WSAENOTSOCK", "WSAEDESTADDRREQ",
      "WSAEPROTOTYPE", "WSAENOPROTOOPT", "WSAEOPNOTSUPP", "WSAEADDRNOTAVAIL",
      "WSAEISCONN", "WSAENOTCONN", "WSAESHUTDOWN", "WSA_INVALID_HANDLE",
      "WSA_INVALID_PARAMETER"},
   EO_out_of_resources |->
     {"WSAEMFILE", "WSAEMSGSIZE", "WSAENETDOWN", "WSAENETRESET", "WSAENOBUFS",
      "WSAEPROCLIM", "WSA_NOT_ENOUGH_MEMORY"},
   EO_unsupported_platform |->
     {"WSAEPROTONOSUPPORT", "WSAESOCKTNOSUPPORT", "WSAEPFNOSUPPORT",
      "WSAEAFNOSUPPORT", "WSASYSNOTREADY"},
   EO_unsupported_version |-> {"WSAVERNOTSUPPORTED"},
   EO_bad_address |->
     {"WSAENETUNREACH", "WSAEHOSTUNREACH", "WSAHOST_NOT_FOUND", "WSATRY_AGAIN",
      "WSANO_RECOVERY", "WSANO_DATA"},
   EO_peer_refused |-> {"WSAECONNREFUSED"},
   EO_peer_dropped |-> {"WSAECONNRESET", "WSAEDISCON", "WSA_OPERATION_ABORTED"},
   EO_peer_timeout |-> {"WSAECONNABORTED", "WSAETIMEDOUT", "WSAEHOSTDOWN"}]

GetWsaError(err) ==
  IF \E option \in DOMAIN WsaOptions : err \in WsaOptions[option]
  THEN CHOOSE option \in DOMAIN WsaOptions : err \in WsaOptions[option]
  ELSE "EO_unknown_error"

\* Who hears of an error: the notifier of the manager that is blamed, if one is
\* and has a notifier; otherwise the global one; otherwise nobody, for what is
\* written for the debugger is not modelled.  First, the other way round:
HearerGlobal(own, global) ==
  IF global THEN "global" ELSE IF own THEN "own" ELSE "nobody"

Hearer(own, global) ==
  IF own THEN "own" ELSE IF global THEN "global" ELSE "nobody"

\* wsa_error_from( sock, mgr, err, area ) and etwork_error_from( sock, mgr, err )
\* blame the manager, when there is one; etwork_info_from( 0, err ), without a
\* socket, and etwork_log() blame nobody.
ErrorFrom(own, global, err) == [to |-> Hearer(own, global), option |-> err]

InfoFromNobody(global, err) == [to |-> Hearer(FALSE, global), option |-> err]
=============================================================================
