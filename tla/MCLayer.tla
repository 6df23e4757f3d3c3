------------------------------ MODULE MCLayer ------------------------------
EXTENDS Layer

BoxesDef == {<<0, 0, 2, 1>>, <<1, 0, 1, 1>>}
SizesDef == {<<0, 1>>, <<1, 1>>, <<3, 1>>}
=============================================================================
