--------------------------- MODULE IotSocketCodes ---------------------------
(***************************************************************************)
(* The return codes of include/iot_socket.h.  Every function of the API    *)
(* returns an int32_t: 0 or a positive count or a socket identification    *)
(* number on success, one of these negative numbers otherwise.             *)
(***************************************************************************)
EXTENDS Integers

OK           == 0
ERROR        == -1
ESOCK        == -2
EINVAL       == -3
ENOTSUP      == -4
ENOMEM       == -5
EAGAIN       == -6
EINPROGRESS  == -7
ETIMEDOUT    == -8
EISCONN      == -9
ENOTCONN     == -10
ECONNREFUSED == -11
ECONNRESET   == -12
ECONNABORTED == -13
EALREADY     == -14
EADDRINUSE   == -15
EHOSTNOTFOUND == -16

(* The error codes a caller of the API can be told about. *)
ErrorCodes == EHOSTNOTFOUND .. ERROR

(* The content of a local result variable before anything was assigned to  *)
(* it: whatever the stack holds, which is none of the values above unless  *)
(* by accident.  It is kept apart so that a caller reading it is seen.     *)
Uninit == -99
=============================================================================
