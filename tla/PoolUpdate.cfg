\* One thread that makes an instance, and one update of the model.
SPECIFICATION PoolSpec
CONSTANTS
  Predictors = {t1}
  MaxUpdates = 1
INVARIANTS SeedsLiveModel
CHECK_DEADLOCK FALSE
