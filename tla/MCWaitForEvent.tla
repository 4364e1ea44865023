-------------------------- MODULE MCWaitForEvent ---------------------------
EXTENDS WaitForEvent, TLC

CONSTANTS t1, t2, plain, single

MCThreads == {t1, t2}
MCEvents == {plain, single}
MCSingleEvents == {single}
=============================================================================
