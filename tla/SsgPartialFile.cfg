SPECIFICATION Spec
INVARIANT AttachSucceeds
CHECK_DEADLOCK FALSE
