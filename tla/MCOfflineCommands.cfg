SPECIFICATION CommandSpec
CONSTANTS
  Order <- MCOrder
  Needs <- MCNeeds
  Inputs = {"data"}
  Targets = {"train_featurizer", "train_classifier"}
  Cacheable = {"train_featurizer", "train_classifier"}
  Fresh = {"train_featurizer", "train_classifier"}
  Random = {"train_featurizer", "train_classifier"}
  TooLarge = {}
  Capacity = 3
  MaxTrainings = 3
  Versions <- MCVersions
  MaxFaults = 1
  Names <- MCNames
  Configs <- MCConfigs
  Events <- MCEvents
  MaxLength = 4
  MaxConversations = 2
CHECK_DEADLOCK FALSE
INVARIANTS AsIfTrainedInFull CacheWithinLimit LeaksHaveCause PartsTrackFirst EvaluatedAsDefined
PROPERTIES RetrainsForACause
