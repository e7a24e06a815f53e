-------------------------- MODULE MCSystemAdapters --------------------------
EXTENDS SystemAdapters

\* Three driver packages of one family: an old one, a new one, one without a date.
Versions == <<1, 2, 0>>
=============================================================================
