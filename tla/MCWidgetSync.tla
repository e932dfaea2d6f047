----------------------------- MODULE MCWidgetSync -----------------------------
EXTENDS WidgetSync

CONSTANTS label, button, k1, k2, none

MCWidgets == {[type |-> label, key |-> k] : k \in {k1, k2, none}}
             \cup {[type |-> button, key |-> k] : k \in {k1, none}}
MCPrograms == {{p} : p \in AllLiberties} \cup {{}}
MCRebuildsAlone == {{RebuildsAlone}}
=============================================================================
