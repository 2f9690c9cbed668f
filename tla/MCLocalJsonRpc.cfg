SPECIFICATION Spec
CONSTANT MaxBinds = 3
INVARIANTS OneDriver StateAgrees
PROPERTIES ConnectionSpec EventuallyConnected
