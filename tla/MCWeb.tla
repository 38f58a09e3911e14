------------------------------- MODULE MCWeb --------------------------------
\* The web debugger on a small instance.
EXTENDS Web
=============================================================================
