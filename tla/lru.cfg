SPECIFICATION LruSpec
CONSTANTS
  Ids = {0, 1, 2, 3}
  Vals = {"v", "w"}
  Capacity = 3
VIEW LruView
INVARIANT CacheSound
PROPERTY IsLru
