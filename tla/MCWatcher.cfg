SPECIFICATION WatcherSpec
CONSTANTS
    Debounces = {0, 2}
    MaxEvents = 3
PROPERTIES
    ImplementsSource
    ThreadAnswers
CHECK_DEADLOCK FALSE
