\* A collection before close() punches a hole into _childHandles.
SPECIFICATION Spec
CONSTANT MaxHandles = 3
INVARIANT CloseReleasesAll
