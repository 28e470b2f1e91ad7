\* One market, two outcomes; the Data API is late by up to half a cooldown.
\* PassSpec, for DropoutsLeave: only placement passes need to go on.
CONSTANTS
  m1 = m1
  yes = yes
  no = no
  Markets <- MCMarkets
  Tokens <- MCTokens
  MarketOf <- MCMarketOf
  NoToken = NoToken
  Cooldown = 2
  Lag = 1
SPECIFICATION PassSpec
PROPERTIES NoBuyWhileHeld DropoutsLeave
