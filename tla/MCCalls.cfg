SPECIFICATION Spec
CONSTANTS
  DesEncrypt <- MCDesEncrypt
  DesDecrypt <- MCDesDecrypt
  Buffers <- MCBuffers
  HexStrings <- MCHexStrings
  B64Strings <- MCB64Strings
  Rooms = {0, 1, 2, 3, 4, 5, 6, 7}
  Ipv4Strings <- MCIpv4Strings
  Ipv4Addresses <- MCIpv4Addresses
  Ipv6Forms <- MCIpv6Forms
  Ipv6Strings <- MCIpv6Strings
  Ipv6Addresses <- MCIpv6Addresses
  Stack = {0, 255}
  UriStrings <- MCUriStrings
  SegmentStrings <- MCSegmentStrings
  Memories <- MCMemories
  BitWords <- MCBitWords
  Factors <- MCIntegers
  Logs <- MCLogs
  Overflows <- MCOverflows
  UintBits = 31
  IntMax = 99
  Messages <- MCMessages
  Keys <- MCKeys
  Trees <- MCTrees
INVARIANTS CodecsExact Ipv4Canonical Ipv6RightWhenEven Ipv6PrintsColon Ipv6TakesAndSmashes UriSplits NormalizeStable BitsMirrored Arithmetic EcbReturns AbsorbsOnce KeyScheduleIsFips TraversalInOrder ChangesLeaveLinks
CHECK_DEADLOCK FALSE
