SPECIFICATION Spec
CONSTANTS
  Subscription <- MCSubscription
  Messages <- MCMessages
  Number <- MCNumber
  NoChannel = NoChannel
  MaxRestarts = 2
  MaxOutages = 2
  NoMessage = NoMessage
INVARIANTS OneWayBack SubscribedInThisSession RoutedByContract
PROPERTY ImplementsSession
CHECK_DEADLOCK FALSE
