-------------------------------- MODULE MCParts --------------------------------
EXTENDS Parts, MCWidgetSync

CONSTANTS container, app, x, y

MCComponents == {container, app, x, y}
=============================================================================
