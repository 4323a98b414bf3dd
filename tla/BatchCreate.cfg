SPECIFICATION Spec
CONSTANTS
  Stores = {"memcached"}
  Jobs <- BatchJobs
  Sizes = 4
INVARIANT
  DoneAsAsked
