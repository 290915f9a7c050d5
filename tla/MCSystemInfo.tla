---------------------------- MODULE MCSystemInfo ----------------------------
(* An instance of SystemInfo for TLC.                                      *)
EXTENDS SystemInfo

CONSTANTS c1, c2

AllChannels == {"shm", "mmap", "msgq", "socket"}
=============================================================================
