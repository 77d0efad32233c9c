SPECIFICATION DriveFairSpec
INVARIANTS Exclusive SeenBeforeOffered
PROPERTIES DriveReturns
