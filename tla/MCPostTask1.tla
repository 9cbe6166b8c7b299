---------------------------- MODULE MCPostTask1 ----------------------------
EXTENDS PostTask1
============================================================================
