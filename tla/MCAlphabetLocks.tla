--------------------------- MODULE MCAlphabetLocks ---------------------------
(* An instance of AlphabetLocks for TLC.                                   *)
EXTENDS AlphabetLocks

AllPrograms == {"mutex", "rw", "sem_posix", "sem_sysv"}
=============================================================================
