SPECIFICATION AdvertSpec
CONSTANTS
  Locations = {"home", "hill"}
  MaxKeys = 3
  MaxPathSize = 2
  MaxPacketPayload = 12
  MaxAdvertData = 6
  AdvertFixedSize = 6
  CoordinateSize = 1
  FeatureSize = 1
  CodesSize = 4
  MaxRawSize = 21
  HashBlock = 8
  LengthAt = 6
  LengthBytes = 1
  P = 197
  D = 14
  L = 23
  BasePoint <- MCBasePoint
  SignBit = 256
  ScalarBytes = 2
  HashOf <- MCHashOf
  KeyRadix = 8
  Latitude <- MCLatitude
  Longitude <- MCLongitude
  NodeName <- MCNodeName
  Times = {1, 2}
  Repeaters = {8, 9}
  OtherFrames <- MCOtherFrames
INVARIANT
  LocationRead
