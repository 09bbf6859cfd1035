SPECIFICATION FairCaptureSpec
CONSTANTS
  ChildCount <- ThreeChildren
  MaxLines = 3
  CaptureFaults <- AllCaptureFaults
INVARIANTS AllTypeOK PinsFindable ParentOutlivesChildren AcceptedIsCaptured
PROPERTIES GoodCaptureKept CaptureReturns ImplementsPreparedRun
