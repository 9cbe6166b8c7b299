---------------------------- MODULE MCPostTask2 ----------------------------
EXTENDS PostTask2
============================================================================
