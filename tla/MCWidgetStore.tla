---------------------------- MODULE MCWidgetStore ---------------------------
(* The two demo widgets, and threads that are interchangeable.             *)
EXTENDS WidgetStore, TLC

CONSTANTS t1, t2
DemoWidgets == <<t1, t2>>
Symmetry == Permutations(Slots)
=============================================================================
