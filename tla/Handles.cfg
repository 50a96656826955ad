\* Four userdata: a hole with entries on both sides, two listeners at once.
SPECIFICATION Spec
CONSTANT MaxHandles = 4
INVARIANTS TypeOK NothingLeaks TrackedOnce ListenerIsWhole RealmOutlivesItsHandles
PROPERTIES CloseCompleteWithoutHoles ReleasedInTheEnd
