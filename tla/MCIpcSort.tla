------------------------------ MODULE MCIpcSort ------------------------------
(* The four programs with their own data; an array that was never filled     *)
(* holds zeros and a large value.                                            *)
EXTENDS IpcSort

MCUnfilled == <<0, 32767, 0, 0, 0>>

=============================================================================
