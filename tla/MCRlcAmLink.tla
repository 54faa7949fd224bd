---------------------------- MODULE MCRlcAmLink ------------------------------
EXTENDS RlcAmLink

\* -1 in the code's configuration, which a .cfg cannot write
Infinity == -1
NotCounted == -1
=============================================================================
