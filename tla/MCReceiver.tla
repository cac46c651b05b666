------------------------------ MODULE MCReceiver ------------------------------
EXTENDS Receiver, TLC
CONSTANTS d1, d2
===============================================================================
