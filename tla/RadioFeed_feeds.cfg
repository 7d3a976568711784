\* Two relays and two listeners, three playback ids of two hubs; one feed a hub, one
\* listener a feed, one encoder.
CONSTANTS
  h1 = h1
  h2 = h2
  u1 = u1
  u2 = u2
  Relays = {p1, p2}
  Listeners = {l1, l2}
  i1 = i1
  i2 = i2
  Playbacks <- Three
  User <- OneEach
  Titles = {t1}
  MaxFeeds = 1
  MaxListeners = 1
  LiveLimit = 1
SPECIFICATION FairSpec
INVARIANTS NewestReaches AllGivenBack
PROPERTIES OwnerFreed
