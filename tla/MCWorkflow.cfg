SPECIFICATION Spec
CONSTANT Contact = {0, 2}
INVARIANTS TypeOK BufferReleased RunsTheRightPayload
PROPERTIES HeldPressLeaves LeavingEnds
