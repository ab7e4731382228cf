\* Any write may fail. Fair: the supervisor, a program that runs on.
SPECIFICATION FairSpec
CONSTANTS
  Inode = {i1, i2, i3, i4}
  None = None
INVARIANTS LastPublicationStays
PROPERTY ReadersFollowSession
PROPERTY DeathIsPublished
\* The supervisor ends: stopped, or replaced by the error screen.
CHECK_DEADLOCK FALSE
