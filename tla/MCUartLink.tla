----------------------------- MODULE MCUartLink -----------------------------
(* UartLink with three threads, a queue of two bytes and buffers of at most  *)
(* two bytes.                                                                *)
EXTENDS UartLink
CONSTANTS tcpip, pppos, client
MCThreads == {tcpip, pppos, client}
=============================================================================
