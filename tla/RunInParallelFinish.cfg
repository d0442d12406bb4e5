SPECIFICATION Spec
CONSTANT NumThreads = 2
INVARIANT RunsHaveFinished
