SPECIFICATION Spec
CONSTANT N = 5
INVARIANTS TypeOK NoSendOnClosed
PROPERTY FansOut
